---- MODULE Spec2Model ----
(***************************************************************************)
(* A model of github.com/Merovius/nbd: the NBD handshake (client and       *)
(* server side) over a byte stream, the per-connection Serve task, the     *)
(* ListenAndServe accept loop, Loopback and the netlink package nbdnl.     *)
(*                                                                         *)
(* The specifications of the module share its variables:                   *)
(*   Spec     - one connection: a peer (the package's Client, or a peer    *)
(*              writing raw frames) talking to Serve over two byte queues; *)
(*   SpecLAS  - the accept loop of ListenAndServe with its connection      *)
(*              goroutines and the WaitGroup;                              *)
(*   SpecFind - findExport over lists of exports;                          *)
(*   SpecLoop - the serve task of Loopback and its wait function;          *)
(*   SpecRT   - encoders and decoders applied back to back;                *)
(*   SpecNL   - goroutines calling the operations of nbdnl;                *)
(*   SpecStatus   - Status and StatusAll over device lists of the kernel;  *)
(*   SpecCodec    - a codec session (do) reading and writing through the   *)
(*                  cancellation-aware wrapper ctxRW;                      *)
(*   SpecBuf      - the buffered mode of the encoder in encodeReply and    *)
(*                  Client.send;                                           *)
(*   SpecDiscard  - encoder.discard over streams of several lengths;       *)
(*   SpecLoopback - Loopback from its first statement on.                  *)
(* FairSpec, FairSpecLAS, FairSpecLoop and FairSpecCodec add the fairness  *)
(* of the goroutines.                                                      *)
(* Wire values are sequences of bytes.  A u32 or u64 whose numeric value   *)
(* is needed is converted with Val; values with the top bit set (error     *)
(* codes, 0xffffffff) stay byte sequences.                                 *)
(***************************************************************************)
EXTENDS Integers, Sequences, FiniteSets, TLC

VARIABLES
    exports,      \* exp ...Export: the export list passed to Serve
    ctxDone,      \* ctx.Err() != nil
    c2s,          \* bytes written by the peer and not yet read by the server
    s2c,          \* bytes written by the server and not yet read by the peer
    connClosed,   \* c.Close() was called on the server's end of the connection
    peerClosed,   \* the peer closed its end of the connection
    srv_pc,       \* position of the server: hello, flags, options (serverHandshake),
                  \* transmission, reply (serve), returned, closed, panicked; foreign when
                  \* the server is not this package's
    srv_err,      \* error returned by Serve ("nil" while none)
    srv_parms,    \* parms connParameters of serverHandshake
    srv_last,     \* the option serverHandshake handled last: frame, bytes consumed, replies,
                  \* bytes written, outcome
    srv_reply,    \* serve: the writes of the reply to the decoded request not yet done
    srv_log,      \* serve: the requests decoded so far, each with the bytes written for it
    dev,          \* the bytes of p.Export.Device
    cl_pc,        \* position of the peer: start, idle, recv, raw
    cl_hs,        \* how the peer did the flags exchange: none, ClientHandshake, raw (it wrote
                  \* flagDefaults itself), raw-other (it wrote other flags); kernel
                  \* when the peer is the kernel end of the socket pair of Loopback
    cl_closed,    \* Client.closed
    cl_op,        \* the Client method in progress, with its accumulated result
    cl_res,       \* the result of the Client method that returned last
    cl_hist,      \* the Client methods and raw frames issued so far
    las_pc,       \* position of ListenAndServe: listen, accept, wait, returned
    las_err,      \* error returned by ListenAndServe
    lfail,        \* the listener has failed: the next Accept returns an error
    backlog,      \* connections that reached the listener and are not yet accepted
    wg,           \* sync.WaitGroup counter
    conn,         \* per connection, the position of its goroutine: none, hello, flags,
                  \* options (serverHandshake), hserr (Serve returned), done
    wait_pc,      \* position of a call of the wait function of Loopback: none, egwait,
                  \* disconnect, closeclient, closeserver, returned
    wait_err,     \* err of the wait function
    wait_log,     \* the steps the calls of wait have taken, each with the error it got
    lb_pc,        \* position of Loopback: none (not followed), start, fileconn, configure,
                  \* returned, failed
    fds,          \* the open descriptors: client, server, serverc of Loopback and
                  \* listener of ListenAndServe
    nl_mu,        \* nbdnl: the caller holding conn.mu (0 when unlocked)
    nl_conn,      \* nbdnl: whether conn.c and conn.family are initialised; for the
                  \* genetlink.Conn, whether it serialises Execute itself and who is in it;
                  \* the version of the nbd family of the kernel
    nl_pc,        \* nbdnl: per caller, its operation and position: idle, dial, locked,
                  \* dialed, execute
    nl_log        \* nbdnl: the commands begun and ended on the session, in order

hsVars  == <<exports, ctxDone, c2s, s2c, connClosed, peerClosed, srv_pc, srv_err,
             srv_parms, srv_last, srv_reply, srv_log, dev, cl_pc, cl_hs, cl_closed, cl_op, cl_res, cl_hist>>
waitVars == <<wait_pc, wait_err, wait_log, lb_pc, fds>>
nlVars  == <<nl_mu, nl_conn, nl_pc, nl_log>>
lasVars == <<las_pc, las_err, lfail, backlog, wg, conn, waitVars, nlVars>>
vars    == <<exports, ctxDone, c2s, s2c, connClosed, peerClosed, srv_pc, srv_err,
             srv_parms, srv_last, srv_reply, srv_log, dev, cl_pc, cl_hs, cl_closed, cl_op, cl_res, cl_hist,
             las_pc, las_err, lfail, backlog, wg, conn, waitVars, nlVars>>

(***************************************************************************)
(* Bounds of the model.                                                    *)
(***************************************************************************)
MaxMsgs  == 2     \* option frames / Client methods the peer issues on one connection
MaxConns == 2     \* connections that reach the listener
MaxExports == 2   \* exports in a list handed to findExport
MaxCallers == 2   \* goroutines calling into nbdnl at the same time
MaxCommands == 2  \* commands executed on the netlink session
MaxDevices == 2   \* device entries in a status reply of the kernel
MaxBytes == 2     \* bytes of one codec read or write, and bytes the peer sends

(***************************************************************************)
(* Big-endian encoding (encoding/binary.BigEndian) of values below 2^31.    *)
(***************************************************************************)
BE16(n) == <<(n \div 256) % 256, n % 256>>
BE32(n) == <<(n \div 16777216) % 256, (n \div 65536) % 256, (n \div 256) % 256, n % 256>>
BE64(n) == <<0, 0, 0, 0>> \o BE32(n)

RECURSIVE Val(_)
\* binary.BigEndian.UintNN of a byte sequence; used only where the value fits
Val(b) == IF b = <<>> THEN 0 ELSE Val(SubSeq(b, 1, Len(b) - 1)) * 256 + b[Len(b)]

\* the u32 held in 4 bytes is at least 2^31
IsBig(b) == b[1] >= 128

\* n bytes of s starting at index i
Bytes(s, i, n) == SubSeq(s, i, i + n - 1)

RECURSIVE Concat(_)
Concat(ss) == IF ss = <<>> THEN <<>> ELSE Head(ss) \o Concat(Tail(ss))

(***************************************************************************)
(* Protocol constants.                                                     *)
(***************************************************************************)
nbdMagic == <<78, 66, 68, 77, 65, 71, 73, 67>>       \* 0x4e42444d41474943
optMagic == <<73, 72, 65, 86, 69, 79, 80, 84>>       \* 0x49484156454F5054
repMagic == <<0, 3, 232, 137, 4, 85, 101, 169>>      \* 0x0003e889045565a9
flagFixedNewstyle == 1
flagNoZeroes      == 2
flagDefaults      == 3
maxOptionLength   == 4096

cOptExportName == 1
cOptAbort      == 2
cOptList       == 3
cOptInfo       == 6
cOptGo         == 7

cRepAck    == 1
cRepServer == 2
cRepInfo   == 3

cInfoExport      == 0
cInfoName        == 1
cInfoDescription == 2
cInfoBlockSize   == 3

\* errno = (1 << 31) + iota, as the four bytes on the wire
errUnsup   == <<128, 0, 0, 1>>
errInvalid == <<128, 0, 0, 3>>
errUnknown == <<128, 0, 0, 6>>
errTooBig  == <<128, 0, 0, 9>>

\* BlockSizeConstraints{1, 4096, 0xffffffff}
defaultBlockSizes == [Min |-> BE32(1), Preferred |-> BE32(4096), Max |-> <<255, 255, 255, 255>>]

(***************************************************************************)
(* Exports.  A name is a byte string; BlockSizes is "nil" or a triple.     *)
(***************************************************************************)
NameA == <<97>>
NameB == <<98>>
NameC == <<99>>

ExA == [Name |-> NameA, Description |-> <<100>>, Size |-> 1024, Flags |-> 1,
        BlockSizes |-> [Min |-> BE32(1), Preferred |-> BE32(512), Max |-> BE32(65535)]]
ExB == [Name |-> NameB, Description |-> <<>>, Size |-> 2048, Flags |-> 5,
        BlockSizes |-> "nil"]
\* Export{}
ZeroExport == [Name |-> <<>>, Description |-> <<>>, Size |-> 0, Flags |-> 0,
               BlockSizes |-> "nil"]

ExportLists == { <<ExA, ExB>>, <<ExB>> }
PeerNames   == { <<>>, NameA, NameB, NameC }

RECURSIVE findFrom(_, _, _)
findFrom(name, exp, i) ==
    IF i > Len(exp) THEN [ex |-> ZeroExport, ok |-> FALSE]
    ELSE IF exp[i].Name = name THEN [ex |-> exp[i], ok |-> TRUE]
    ELSE findFrom(name, exp, i + 1)

\* findExport without the rule for the empty name
findExport_NoDefault(name, exp) == findFrom(name, exp, 1)

findExport(name, exp) ==
    IF Len(exp) > 0 /\ name = <<>> THEN [ex |-> exp[1], ok |-> TRUE]
    ELSE findFrom(name, exp, 1)

(***************************************************************************)
(* Option requests: decodeOption and the decode methods.  A decoder reads  *)
(* from the front of the stream s.  Its result says how many bytes it      *)
(* consumed (n) and how it ended:                                          *)
(*   need  - a read blocks: the stream holds too few bytes;                *)
(*   fatal - e.check failed (the session ends with an error);              *)
(*   errno - the decoder returned an errno for an error reply;             *)
(*   ok    - an option was decoded.                                        *)
(* kind is the dynamic type of the value decodeOption returns: it builds   *)
(* the options with new(optExportName), new(optAbort), new(optList) and    *)
(* &optInfo{...}, so the value is always a pointer.                        *)
(***************************************************************************)
NoOpt == [kind |-> "none", name |-> <<>>, reqs |-> <<>>, done |-> FALSE]

DecRes(st, n, code, o, errno) == [st |-> st, n |-> n, code |-> code, o |-> o, errno |-> errno]

\* uint32 subtraction a - b of values below 2^31: the value is v, or 2^32 - v when it wrapped
Sub32(a, b) == IF a >= b THEN [wrap |-> FALSE, v |-> a - b] ELSE [wrap |-> TRUE, v |-> b - a]
\* x % 2 != 0
Odd32(x) == x.v % 2 # 0
\* x / 2 == k, for k below 2^16
HalfEq32(x, k) == IF x.wrap THEN (x.v + 1) \div 2 = (2147483647 - k) + 1 ELSE x.v \div 2 = k

RECURSIVE readReqs(_, _, _)
\* the loop of optInfo.decode: nreqs times e.uint16(), starting at index pos
readReqs(s, pos, nreqs) ==
    IF nreqs = 0 THEN <<>> ELSE <<Val(Bytes(s, pos, 2))>> \o readReqs(s, pos + 2, nreqs - 1)

\* (o *optExportName).decode: the name is the l body bytes
optExportName_decode(s, code, l) ==
    IF Len(s) < 16 + l THEN DecRes("need", 16, code, NoOpt, <<>>)
    ELSE DecRes("ok", 16 + l, code,
                [kind |-> "*optExportName", name |-> Bytes(s, 17, l), reqs |-> <<>>, done |-> FALSE], <<>>)

\* (o *optAbort).decode
optAbort_decode(s, code, l) ==
    IF l # 0 THEN DecRes("errno", 16, code, NoOpt, errInvalid)
    ELSE DecRes("ok", 16, code, [kind |-> "*optAbort", name |-> <<>>, reqs |-> <<>>, done |-> FALSE], <<>>)

\* (o *optList).decode
optList_decode(s, code, l) ==
    IF l # 0 THEN DecRes("errno", 16, code, NoOpt, errInvalid)
    ELSE DecRes("ok", 16, code, [kind |-> "*optList", name |-> <<>>, reqs |-> <<>>, done |-> FALSE], <<>>)

\* the layout test of optInfo.decode on the name length: l < 6 || nlen < l-6
optInfo_badName(l, nlenB) == l < 6 \/ (~IsBig(nlenB) /\ Val(nlenB) < l - 6)

\* (o *optInfo).decode
optInfo_decode(s, code, l, done) ==
    IF Len(s) < 20 THEN DecRes("need", 16, code, NoOpt, <<>>)
    ELSE LET nlenB == Bytes(s, 17, 4) IN
      IF optInfo_badName(l, nlenB) THEN DecRes("errno", 20, code, NoOpt, errInvalid)
      ELSE IF IsBig(nlenB) THEN DecRes("need", 20, code, NoOpt, <<>>)
      ELSE LET nlen == Val(nlenB) IN
        IF Len(s) < 20 + nlen + 2 THEN DecRes("need", 20, code, NoOpt, <<>>)
        ELSE LET name  == Bytes(s, 21, nlen)
                 nreqs == Val(Bytes(s, 21 + nlen, 2))
                 rest  == Sub32(l - 6, nlen)
             IN IF Odd32(rest) \/ ~HalfEq32(rest, nreqs)
                THEN DecRes("errno", 22 + nlen, code, NoOpt, errInvalid)
                ELSE IF Len(s) < 22 + nlen + 2 * nreqs
                THEN DecRes("need", 22 + nlen, code, NoOpt, <<>>)
                ELSE DecRes("ok", 22 + nlen + 2 * nreqs, code,
                            [kind |-> "*optInfo", name |-> name,
                             reqs |-> readReqs(s, 23 + nlen, nreqs), done |-> done], <<>>)

decodeOption(s) ==
    IF Len(s) < 8 THEN DecRes("need", 0, <<>>, NoOpt, <<>>)
    ELSE IF Bytes(s, 1, 8) # optMagic THEN DecRes("fatal", 8, <<>>, NoOpt, <<>>)
    ELSE IF Len(s) < 16 THEN DecRes("need", 8, <<>>, NoOpt, <<>>)
    ELSE LET option  == Bytes(s, 9, 4)
             lengthB == Bytes(s, 13, 4)
         IN IF IsBig(lengthB) \/ Val(lengthB) > maxOptionLength
            THEN DecRes("errno", 16, option, NoOpt, errTooBig)
            ELSE LET l == Val(lengthB) IN
              IF option = BE32(cOptExportName) THEN optExportName_decode(s, option, l)
              ELSE IF option = BE32(cOptAbort) THEN optAbort_decode(s, option, l)
              ELSE IF option = BE32(cOptList) THEN optList_decode(s, option, l)
              ELSE IF option = BE32(cOptInfo) THEN optInfo_decode(s, option, l, FALSE)
              ELSE IF option = BE32(cOptGo) THEN optInfo_decode(s, option, l, TRUE)
              ELSE DecRes("errno", 16, option, NoOpt, errUnsup)

(***************************************************************************)
(* Option replies.  A reply is [code, body]: code is the four bytes of     *)
(* reply.code(), body the bytes reply.encode wrote into the buffer.        *)
(***************************************************************************)
Reply(code, body) == [code |-> code, body |-> body]

repAck            == Reply(BE32(cRepAck), <<>>)
repServer(name, details) == Reply(BE32(cRepServer), BE32(Len(name)) \o name \o details)
repError(errno, msg)     == Reply(errno, msg)
infoExport(size, flags)  == Reply(BE32(cRepInfo), BE16(cInfoExport) \o BE64(size) \o BE16(flags))
infoName(name)           == Reply(BE32(cRepInfo), BE16(cInfoName) \o name)
infoDescription(d)       == Reply(BE32(cRepInfo), BE16(cInfoDescription) \o d)
infoBlockSize(bs)        == Reply(BE32(cRepInfo), BE16(cInfoBlockSize) \o bs.Min \o bs.Preferred \o bs.Max)

\* encodeReply: magic, option, reply code, then the buffered body behind its length
encodeReply(option, reply) ==
    repMagic \o option \o reply.code \o BE32(Len(reply.body)) \o reply.body

RECURSIVE encodeReplies(_, _)
encodeReplies(option, replies) ==
    IF replies = <<>> THEN <<>>
    ELSE encodeReply(option, Head(replies)) \o encodeReplies(option, Tail(replies))

(***************************************************************************)
(* serverHandshake: the body of the option loop, as a function of the      *)
(* unread bytes s, the export list and parms.  outcome is what the loop    *)
(* does next: loop (read another option), transmission (return nil) or     *)
(* fail (e.check with an error).  out holds the bytes written.             *)
(***************************************************************************)
RECURSIVE infoReplies(_, _, _)
\* the loop over o.reqs (parms.Export.BlockSizes is not nil only for BLOCK_SIZE replies)
infoReplies(reqs, parms, done) ==
    IF reqs = <<>> THEN [replies |-> <<>>, parms |-> parms]
    ELSE LET r == Head(reqs)
             p1 == IF r = cInfoBlockSize /\ parms.Export.BlockSizes # "nil" /\ done
                   THEN [parms EXCEPT !.BlockSizes = parms.Export.BlockSizes]
                   ELSE parms
             here == IF r = cInfoName THEN <<infoName(parms.Export.Name)>>
                     ELSE IF r = cInfoDescription THEN <<infoDescription(parms.Export.Description)>>
                     ELSE IF r = cInfoBlockSize /\ parms.Export.BlockSizes # "nil"
                          THEN <<infoBlockSize(p1.BlockSizes)>>
                     ELSE <<>>
             rest == infoReplies(Tail(reqs), p1, done)
         IN [replies |-> here \o rest.replies, parms |-> rest.parms]

RECURSIVE listReplies(_)
\* for _, ex := range exp { encodeReply(e, code, &repServer{ex.Name, ""}) }
listReplies(exp) ==
    IF exp = <<>> THEN <<>> ELSE <<repServer(Head(exp).Name, <<>>)>> \o listReplies(Tail(exp))

Handled(dec, replies, raw, parms, outcome, err) ==
    [st |-> dec.st, n |-> dec.n, code |-> dec.code, o |-> dec.o, replies |-> replies,
     out |-> encodeReplies(dec.code, replies) \o raw, parms |-> parms,
     outcome |-> outcome, err |-> err]

\* case optExportName
handleExportName(dec, exp, parms) ==
    LET f  == findExport(dec.o.name, exp)
        p1 == [parms EXCEPT !.Export = f.ex]
    IN IF ~f.ok THEN Handled(dec, <<repError(errUnknown, <<>>)>>, <<>>, p1, "loop", "nil")
       ELSE Handled(dec, <<>>, BE64(p1.Export.Size) \o BE16(p1.Export.Flags), p1,
                    "transmission", "nil")

\* case optAbort
handleAbort(dec, exp, parms) ==
    Handled(dec, <<repAck>>, <<>>, parms, "fail", "client aborted negotiation")

\* case optList
handleList(dec, exp, parms) ==
    Handled(dec, listReplies(exp) \o <<repAck>>, <<>>, parms, "loop", "nil")

\* case optInfo
handleInfo(dec, exp, parms) ==
    LET f  == findExport(dec.o.name, exp)
        p1 == [parms EXCEPT !.Export = f.ex]
        ir == infoReplies(dec.o.reqs, p1, dec.o.done)
    IN IF ~f.ok THEN Handled(dec, <<repError(errUnknown, <<>>)>>, <<>>, p1, "loop", "nil")
       ELSE Handled(dec, <<infoExport(p1.Export.Size, p1.Export.Flags)>> \o ir.replies \o <<repAck>>,
                    <<>>, ir.parms, IF dec.o.done THEN "transmission" ELSE "loop", "nil")

\* one iteration of the for loop of serverHandshake.  The cases of the type switch
\* name the value types optExportName, optAbort, optList and optInfo; a value of any
\* other dynamic type (the pointers decodeOption returns) matches no case, nothing is
\* written for it and the loop reads the next option
handleOption(s, exp, parms) ==
    LET dec == decodeOption(s) IN
    IF dec.st = "need" THEN Handled(dec, <<>>, <<>>, parms, "blocked", "nil")
    ELSE IF dec.st = "fatal" THEN Handled(dec, <<>>, <<>>, parms, "fail", "invalid option magic")
    ELSE IF dec.st = "errno" THEN Handled(dec, <<repError(dec.errno, <<>>)>>, <<>>, parms, "loop", "nil")
    ELSE IF dec.o.kind = "optExportName" THEN handleExportName(dec, exp, parms)
    ELSE IF dec.o.kind = "optAbort" THEN handleAbort(dec, exp, parms)
    ELSE IF dec.o.kind = "optList" THEN handleList(dec, exp, parms)
    ELSE IF dec.o.kind = "optInfo" THEN handleInfo(dec, exp, parms)
    ELSE Handled(dec, <<>>, <<>>, parms, "loop", "nil")

\* the frame the peer framed at the front of s: header and declared body, as far as present
frameOf(s) ==
    IF Len(s) < 16 \/ IsBig(Bytes(s, 13, 4)) THEN s
    ELSE SubSeq(s, 1, IF Len(s) < 16 + Val(Bytes(s, 13, 4)) THEN Len(s) ELSE 16 + Val(Bytes(s, 13, 4)))

NoLast == [frame |-> <<>>, st |-> "none", n |-> 0, o |-> NoOpt, replies |-> <<>>, out |-> <<>>,
           outcome |-> "none"]

(***************************************************************************)
(* The client side: Client.send and Client.recv.                           *)
(***************************************************************************)
\* optInfo.encode
optInfo_encode(name, reqs) ==
    BE32(Len(name)) \o name \o BE16(Len(reqs)) \o Concat([i \in 1..Len(reqs) |-> BE16(reqs[i])])

\* Client.send: magic, option code, then the buffered body behind its length
send(code, body) == optMagic \o BE32(code) \o BE32(Len(body)) \o body

\* reqs of Client.info
infoReqs == <<cInfoExport, cInfoName, cInfoDescription, cInfoBlockSize>>

NoRep == [kind |-> "nil", name |-> <<>>, details |-> <<>>, size |-> 0, flags |-> 0,
          description |-> <<>>, bs |-> "nil", errno |-> <<>>]

RecvRes(st, n, rep, err) == [st |-> st, n |-> n, rep |-> rep, err |-> err]

\* encoder.discard(n) at index pos: the 512-byte buffer is read whole, and re-sliced
\* beyond its capacity when n exceeds its length
discard(s, pos, n) ==
    IF n = 0 THEN RecvRes("ok", pos - 1, NoRep, "nil")
    ELSE IF n > 512 THEN RecvRes("panic", pos - 1, NoRep, "slice bounds out of range")
    ELSE IF Len(s) < pos - 1 + 512 THEN RecvRes("need", pos - 1, NoRep, "nil")
    ELSE IF n = 512 THEN RecvRes("ok", pos - 1 + 512, NoRep, "nil")
    ELSE RecvRes("panic", pos - 1 + 512, NoRep, "slice bounds out of range")

\* (r *repAck).decode
repAck_decode(s, lB) ==
    IF lB # BE32(0) THEN RecvRes("fatal", 20, NoRep, "invalid ack response")
    ELSE RecvRes("ok", 20, [NoRep EXCEPT !.kind = "ack"], "nil")

\* (r *repServer).decode
repServer_decode(s, lB) ==
    IF ~IsBig(lB) /\ Val(lB) < 4 THEN RecvRes("fatal", 20, NoRep, "invalid server response")
    ELSE IF Len(s) < 24 THEN RecvRes("need", 20, NoRep, "nil")
    ELSE LET lenB == Bytes(s, 21, 4) IN
      IF IsBig(lB) THEN RecvRes("need", 24, NoRep, "nil")   \* a body of 2^31 bytes never arrives whole
      ELSE IF IsBig(lenB) \/ Val(lenB) > Val(lB) - 4
          THEN RecvRes("fatal", 24, NoRep, "invalid server response")
      ELSE IF Len(s) < 20 + Val(lB) THEN RecvRes("need", 24, NoRep, "nil")
      ELSE LET b == Bytes(s, 25, Val(lB) - 4) IN
          RecvRes("ok", 20 + Val(lB),
                  [NoRep EXCEPT !.kind = "server", !.name = SubSeq(b, 1, Val(lenB)),
                                !.details = SubSeq(b, Val(lenB) + 1, Len(b))], "nil")

\* decodeInfo and the decode methods of the info replies; l is the reply length
decodeInfo(s, l) ==
    IF l < 2 THEN RecvRes("fatal", 20, NoRep, "invalid length for info reply")
    ELSE IF Len(s) < 22 THEN RecvRes("need", 20, NoRep, "nil")
    ELSE LET code == Val(Bytes(s, 21, 2)) IN
      IF code = cInfoExport THEN
          IF l - 2 # 10 THEN RecvRes("fatal", 22, NoRep, "invalid length for info reply")
          ELSE IF Len(s) < 32 THEN RecvRes("need", 22, NoRep, "nil")
          ELSE RecvRes("ok", 32, [NoRep EXCEPT !.kind = "infoExport",
                                    !.size = Val(Bytes(s, 23, 8)),
                                    !.flags = Val(Bytes(s, 31, 2))], "nil")
      ELSE IF code = cInfoName THEN
          IF l - 2 > 4096 THEN RecvRes("fatal", 22, NoRep, "name too large")
          ELSE IF Len(s) < 20 + l THEN RecvRes("need", 22, NoRep, "nil")
          ELSE RecvRes("ok", 20 + l, [NoRep EXCEPT !.kind = "infoName",
                                        !.name = Bytes(s, 23, l - 2)], "nil")
      ELSE IF code = cInfoDescription THEN
          IF l - 2 > 4096 THEN RecvRes("fatal", 22, NoRep, "description too large")
          ELSE IF Len(s) < 20 + l THEN RecvRes("need", 22, NoRep, "nil")
          ELSE RecvRes("ok", 20 + l, [NoRep EXCEPT !.kind = "infoDescription",
                                        !.description = Bytes(s, 23, l - 2)], "nil")
      ELSE IF code = cInfoBlockSize THEN
          IF l - 2 # 12 THEN RecvRes("fatal", 22, NoRep, "invalid length for block size info")
          ELSE IF Len(s) < 34 THEN RecvRes("need", 22, NoRep, "nil")
          ELSE RecvRes("ok", 34, [NoRep EXCEPT !.kind = "infoBlockSize",
                                    !.bs = [Min |-> Bytes(s, 23, 4), Preferred |-> Bytes(s, 27, 4),
                                            Max |-> Bytes(s, 31, 4)]], "nil")
      ELSE discard(s, 23, l - 2)

\* (r *repError).decode followed by e.check(rep.(error)); 4<<20 is 4194304
repError_decode(s, rcode, lB) ==
    IF IsBig(lB) \/ Val(lB) > 4194304 THEN RecvRes("fatal", 20, NoRep, "error string too larg")
    ELSE IF Len(s) < 20 + Val(lB) THEN RecvRes("need", 20, NoRep, "nil")
    ELSE RecvRes("fatal", 20 + Val(lB),
                 [NoRep EXCEPT !.kind = "error", !.errno = rcode, !.details = Bytes(s, 21, Val(lB))],
                 "error reply")

\* Client.recv(e, code), after checkClosed
recv(s, code) ==
    IF Len(s) < 8 THEN RecvRes("need", 0, NoRep, "nil")
    ELSE IF Bytes(s, 1, 8) # repMagic
        THEN RecvRes("fatal", 8, NoRep, "invalid reply magic from server")
    ELSE IF Len(s) < 12 THEN RecvRes("need", 8, NoRep, "nil")
    ELSE IF Bytes(s, 9, 4) # BE32(code)
        THEN RecvRes("fatal", 12, NoRep, "server responded to wrong option")
    ELSE IF Len(s) < 20 THEN RecvRes("need", 12, NoRep, "nil")
    ELSE LET rcode == Bytes(s, 13, 4)
             lB    == Bytes(s, 17, 4)
         IN IF rcode = BE32(cRepAck) THEN repAck_decode(s, lB)
            ELSE IF rcode = BE32(cRepServer) THEN repServer_decode(s, lB)
            ELSE IF rcode = BE32(cRepInfo) THEN
                IF IsBig(lB) THEN RecvRes("need", 20, NoRep, "nil") ELSE decodeInfo(s, Val(lB))
            ELSE IF IsBig(rcode) THEN repError_decode(s, rcode, lB)
            ELSE RecvRes("fatal", 20, NoRep, "unknown response code")

(***************************************************************************)
(* Transmission: request.decode, the switch of serve, respondErr and       *)
(* simpleReply.encode.  The device holds DevSize bytes; ReadAt and WriteAt *)
(* inside that range succeed unless the device reports a failure, which is *)
(* an error with an Errno (code) or a plain error.                         *)
(***************************************************************************)
reqMagic         == <<37, 96, 149, 19>>       \* 0x25609513
simpleReplyMagic == <<103, 68, 102, 152>>     \* 0x67446698
cmdRead  == 0
cmdWrite == 1
cmdDisc  == 2
cmdFlush == 3
EPERM     == 1
EIO       == 5
EINVAL    == 22
EOVERFLOW == 75
maxPayload == 4194304                          \* 4 << 20

DevSize == 2
DevInit == [i \in 1..DevSize |-> 9 + i]
\* what a device operation may report: success, an Error with Errno EPERM, an Error
\* with Errno 0, an error that does not implement Error
DevOutcomes == {"ok", "Errno", "Errno0", "plain"}

\* request.encode
request_encode(typ, handle, offset, data) ==
    reqMagic \o BE16(0) \o BE16(typ) \o handle \o offset \o BE32(Len(data)) \o data

\* simpleReply.encode
simpleReply_encode(errno, handle, data) ==
    simpleReplyMagic \o BE32(errno) \o handle \o data

\* an error value: one that implements Error with Errno() = k, or any other error
WithErrno(k) == [hasErrno |-> TRUE, errno |-> k]
PlainError   == [hasErrno |-> FALSE, errno |-> 0]

\* respondErr that leaves the handle of the reply zero
respondErr_NoHandle(handle, err) ==
    simpleReply_encode(IF err.hasErrno THEN err.errno ELSE EIO, <<0, 0, 0, 0, 0, 0, 0, 0>>, <<>>)

\* respondErr: the Errno of an Error, EIO for any other error
respondErr(handle, err) ==
    simpleReply_encode(IF err.hasErrno THEN err.errno ELSE EIO, handle, <<>>)

ReqRes(st, n, req, err) == [st |-> st, n |-> n, req |-> req, err |-> err]
NoReq == [typ |-> 0, handle |-> <<>>, offset |-> <<>>, length |-> <<>>, data |-> <<>>]

\* request.decode that does not compare the magic
request_decode_NoMagic(s) ==
    IF Len(s) < 28 THEN ReqRes("need", 0, NoReq, 0)
    ELSE LET r == [typ |-> Val(Bytes(s, 7, 2)), handle |-> Bytes(s, 9, 8),
                   offset |-> Bytes(s, 17, 8), length |-> Bytes(s, 25, 4), data |-> <<>>]
         IN IF r.offset[1] >= 128 THEN ReqRes("ok", 28, r, EOVERFLOW)
            ELSE IF r.typ # cmdWrite THEN ReqRes("ok", 28, r, 0)
            ELSE IF IsBig(r.length) \/ Val(r.length) > maxPayload
                 THEN ReqRes("panic", 28, r, 0)
            ELSE IF Len(s) < 28 + Val(r.length) THEN ReqRes("need", 28, r, 0)
            ELSE ReqRes("ok", 28 + Val(r.length),
                        [r EXCEPT !.data = Bytes(s, 29, Val(r.length))], 0)

\* request.decode: err is 0 (nil) or the Errno it returns
request_decode(s) ==
    IF Len(s) < 4 THEN ReqRes("need", 0, NoReq, 0)
    ELSE IF Bytes(s, 1, 4) # reqMagic THEN ReqRes("fatal", 4, NoReq, 0)
    ELSE IF Len(s) < 28 THEN ReqRes("need", 4, NoReq, 0)
    ELSE LET r == [typ |-> Val(Bytes(s, 7, 2)), handle |-> Bytes(s, 9, 8),
                   offset |-> Bytes(s, 17, 8), length |-> Bytes(s, 25, 4), data |-> <<>>]
         IN IF r.offset[1] >= 128 THEN ReqRes("ok", 28, r, EOVERFLOW)
            ELSE IF r.typ # cmdWrite THEN ReqRes("ok", 28, r, 0)
            ELSE IF IsBig(r.length) \/ Val(r.length) > maxPayload
                 THEN ReqRes("panic", 28, r, 0)       \* e.discard(r.length) re-slices its 512-byte buffer
            ELSE IF Len(s) < 28 + Val(r.length) THEN ReqRes("need", 28, r, 0)
            ELSE ReqRes("ok", 28 + Val(r.length),
                        [r EXCEPT !.data = Bytes(s, 29, Val(r.length))], 0)

\* the offset and length of a request lie inside the device
InDev(r) == /\ SubSeq(r.offset, 1, 5) = <<0, 0, 0, 0, 0>> /\ ~IsBig(r.length)
            /\ Val(SubSeq(r.offset, 6, 8)) + Val(r.length) <= DevSize

\* Device.WriteAt(data, offset) on the device bytes d
WriteAt(d, off, data) ==
    [i \in 1..Len(d) |-> IF i > off /\ i <= off + Len(data) THEN data[i - off] ELSE d[i]]

\* a device whose errors never implement Error
DevError_Plain(out) == PlainError

\* the error value a failing device operation returns
DevError(out) ==
    IF out = "Errno" THEN WithErrno(EPERM) ELSE IF out = "Errno0" THEN WithErrno(0) ELSE PlainError

\* what one iteration of the loop of serve did: the reply frame, the device afterwards,
\* whether the loop returns, and the device operation it called
Served(bytes, d2, ret, called) == [reply |-> bytes, dev |-> d2, ret |-> ret, called |-> called]

\* serveRead that replies with the bytes one position before the offset
serveRead_OffByOne(r, d, out) ==
    IF r.length = BE32(0) THEN Served(respondErr(r.handle, WithErrno(EINVAL)), d, FALSE, "none")
    ELSE IF out # "ok" THEN Served(respondErr(r.handle, DevError(out)), d, FALSE, "ReadAt")
    ELSE IF ~InDev(r) THEN Served(respondErr(r.handle, PlainError), d, FALSE, "ReadAt")
    ELSE Served(simpleReply_encode(0, r.handle,
                    [i \in 1..Val(r.length) |-> IF Val(SubSeq(r.offset, 6, 8)) + i - 1 = 0 THEN 0
                                                ELSE d[Val(SubSeq(r.offset, 6, 8)) + i - 1]]),
                d, FALSE, "ReadAt")

\* case cmdRead
serveRead(r, d, out) ==
    IF r.length = BE32(0) THEN Served(respondErr(r.handle, WithErrno(EINVAL)), d, FALSE, "none")
    ELSE IF out # "ok" THEN Served(respondErr(r.handle, DevError(out)), d, FALSE, "ReadAt")
    ELSE IF ~InDev(r) THEN Served(respondErr(r.handle, PlainError), d, FALSE, "ReadAt")
    ELSE Served(simpleReply_encode(0, r.handle, Bytes(d, Val(SubSeq(r.offset, 6, 8)) + 1, Val(r.length))),
                d, FALSE, "ReadAt")

\* case cmdWrite
serveWrite(r, d, out) ==
    IF r.length = BE32(0) THEN Served(respondErr(r.handle, WithErrno(EINVAL)), d, FALSE, "none")
    ELSE IF out # "ok" THEN Served(respondErr(r.handle, DevError(out)), d, FALSE, "WriteAt")
    ELSE IF ~InDev(r) THEN Served(respondErr(r.handle, PlainError), d, FALSE, "WriteAt")
    ELSE Served(simpleReply_encode(0, r.handle, <<>>), WriteAt(d, Val(SubSeq(r.offset, 6, 8)), r.data),
                FALSE, "WriteAt")

\* case cmdDisc
serveDisc(r, d) == Served(<<>>, d, TRUE, "none")

\* case cmdFlush without the test of length and offset
serveFlush_NoCheck(r, d, out) ==
    IF out # "ok" THEN Served(respondErr(r.handle, DevError(out)), d, FALSE, "Sync")
    ELSE Served(simpleReply_encode(0, r.handle, <<>>), d, FALSE, "Sync")

\* case cmdFlush
serveFlush(r, d, out) ==
    IF r.length # BE32(0) \/ r.offset # BE64(0)
    THEN Served(respondErr(r.handle, WithErrno(EINVAL)), d, FALSE, "none")
    ELSE IF out # "ok" THEN Served(respondErr(r.handle, DevError(out)), d, FALSE, "Sync")
    ELSE Served(simpleReply_encode(0, r.handle, <<>>), d, FALSE, "Sync")

\* the body of the loop that goes on to the switch whatever req.decode returned
serveRequest_NoGuard(dec, d, out) ==
    LET r == dec.req
    IN IF r.typ = cmdRead THEN serveRead(r, d, out)
       ELSE IF r.typ = cmdWrite THEN serveWrite(r, d, out)
       ELSE IF r.typ = cmdDisc THEN serveDisc(r, d)
       ELSE IF r.typ = cmdFlush THEN serveFlush(r, d, out)
       ELSE Served(respondErr(r.handle, WithErrno(EINVAL)), d, FALSE, "none")

\* the body of the loop of serve for a decoded request; out is the outcome of the device
\* operation, if one is called
serveRequest(dec, d, out) ==
    LET r == dec.req
    IN IF dec.err # 0 THEN Served(respondErr(r.handle, WithErrno(dec.err)), d, FALSE, "none")
       ELSE IF r.typ = cmdRead THEN serveRead(r, d, out)
       ELSE IF r.typ = cmdWrite THEN serveWrite(r, d, out)
       ELSE IF r.typ = cmdDisc THEN serveDisc(r, d)
       ELSE IF r.typ = cmdFlush THEN serveFlush(r, d, out)
       ELSE Served(respondErr(r.handle, WithErrno(EINVAL)), d, FALSE, "none")

\* the writes of simpleReply.encode for a reply frame: magic, errno, handle, data
replyWrites(f) ==
    IF f = <<>> THEN <<>>
    ELSE <<Bytes(f, 1, 4), Bytes(f, 5, 4), Bytes(f, 9, 8), SubSeq(f, 17, Len(f))>>

(***************************************************************************)
(* Spec: one connection.  The server side is Serve, run by the goroutine   *)
(* of ListenAndServe, which closes the connection when Serve returns.      *)
(* Writes to the stream succeed (the stream is reliable and unbounded).    *)
(***************************************************************************)
NoOp  == [op |-> "none", name |-> <<>>, list |-> <<>>, ex |-> ZeroExport]
NoRes == [op |-> "none", err |-> "nil", list |-> <<>>, ex |-> ZeroExport]

\* no wait function is in use, and nobody calls into nbdnl
WaitIdle == wait_pc = "none" /\ wait_err = "nil" /\ wait_log = <<>> /\ lb_pc = "none" /\ fds = {}
NLIdle ==
    /\ nl_mu = 0 /\ nl_conn = [c |-> FALSE, family |-> FALSE, sync |-> FALSE, lock |-> 0, version |-> 1]
    /\ nl_pc = [i \in 1..MaxCallers |-> [pc |-> "idle", op |-> "none"]] /\ nl_log = <<>>

LASIdle ==
    /\ las_pc = "idle" /\ las_err = "nil" /\ lfail = FALSE /\ backlog = 0 /\ wg = 0
    /\ conn = [i \in 1..MaxConns |-> "none"]
    /\ WaitIdle /\ NLIdle

\* the Export Loopback builds for its device: FlagHasFlags | FlagSendFlush, &defaultBlockSizes
LoopExport == [Name |-> <<>>, Description |-> <<>>, Size |-> DevSize, Flags |-> 5,
               BlockSizes |-> defaultBlockSizes]

\* the connection starts in one of three ways:
\*   Serve(ctx, c, exp...) is called on a connection a peer opened;
\*   Loopback calls serve(ctx, serverc, connParameters{exp, defaultBlockSizes}) on its
\*     end of a socket pair whose other end the kernel holds;
\*   a Client of this package talks to a server that is not this package's
Init ==
    /\ ctxDone = FALSE
    /\ c2s = <<>> /\ s2c = <<>>
    /\ connClosed = FALSE /\ peerClosed = FALSE
    /\ srv_err = "nil"
    /\ srv_last = NoLast
    /\ srv_reply = <<>> /\ srv_log = <<>>
    /\ dev = DevInit
    /\ cl_closed = FALSE
    /\ cl_op = NoOp /\ cl_res = NoRes /\ cl_hist = <<>>
    /\ \/ /\ exports \in ExportLists
          /\ srv_pc = "hello"
          /\ srv_parms = [Export |-> ZeroExport, BlockSizes |-> defaultBlockSizes]
          /\ cl_pc = "start" /\ cl_hs = "none"
       \/ /\ exports = <<>>
          /\ srv_pc = "transmission"
          /\ srv_parms = [Export |-> LoopExport, BlockSizes |-> defaultBlockSizes]
          /\ cl_pc = "idle" /\ cl_hs = "kernel"
       \/ /\ exports = <<>>
          /\ srv_pc = "foreign"
          /\ srv_parms = [Export |-> ZeroExport, BlockSizes |-> defaultBlockSizes]
          /\ cl_pc = "start" /\ cl_hs = "none"
    /\ LASIdle

clVars  == <<cl_pc, cl_hs, cl_closed, cl_op, cl_res, cl_hist>>
srvVars == <<srv_pc, srv_err, srv_parms, srv_last, srv_reply, srv_log, dev>>

\* serverHandshake: e.writeUint64(nbdMagic); e.writeUint64(optMagic); e.writeUint16(flagDefaults)
SrvHello ==
    /\ srv_pc = "hello"
    /\ s2c' = s2c \o nbdMagic \o optMagic \o BE16(flagDefaults)
    /\ srv_pc' = "flags"
    /\ UNCHANGED <<exports, ctxDone, c2s, connClosed, peerClosed, srv_err, srv_parms, srv_last,
                   srv_reply, srv_log, dev, clVars, lasVars>>

\* the outcome of the two checks on clientFlags
checkClientFlags(clientFlags) ==
    IF clientFlags \div 4 # 0 THEN "handshake aborted due to unknown handshake flags"
    ELSE IF clientFlags # flagDefaults THEN "refusing deprecated handshake flags"
    ELSE "nil"

\* serverHandshake: clientFlags := e.uint16() and the checks on it
SrvFlags ==
    /\ srv_pc = "flags"
    /\ \/ /\ Len(c2s) >= 2
          /\ c2s' = SubSeq(c2s, 3, Len(c2s))
          /\ srv_err' = checkClientFlags(Val(Bytes(c2s, 1, 2)))
          /\ srv_pc' = IF srv_err' = "nil" THEN "options" ELSE "returned"
       \/ /\ Len(c2s) < 2 /\ peerClosed
          /\ c2s' = <<>>
          /\ srv_err' = "unexpected EOF"
          /\ srv_pc' = "returned"
    /\ UNCHANGED <<exports, ctxDone, s2c, connClosed, peerClosed, srv_parms, srv_last,
                   srv_reply, srv_log, dev, clVars, lasVars>>

\* serverHandshake: one iteration of the option loop; on nil, Serve goes on to serve()
SrvOption ==
    /\ srv_pc = "options"
    /\ \E h \in {handleOption(c2s, exports, srv_parms)} :
       \/ /\ h.outcome # "blocked"
          /\ c2s' = SubSeq(c2s, h.n + 1, Len(c2s))
          /\ s2c' = s2c \o h.out
          /\ srv_parms' = h.parms
          /\ srv_err' = h.err
          /\ srv_pc' = CASE h.outcome = "loop" -> "options"
                         [] h.outcome = "transmission" -> "transmission"
                         [] OTHER -> "returned"
          /\ srv_last' = [frame |-> frameOf(c2s), st |-> h.st, n |-> h.n, o |-> h.o,
                          replies |-> h.replies, out |-> h.out, outcome |-> h.outcome]
       \/ /\ h.outcome = "blocked" /\ peerClosed
          /\ c2s' = <<>>
          /\ srv_err' = "unexpected EOF"
          /\ srv_pc' = "returned"
          /\ UNCHANGED <<s2c, srv_parms, srv_last>>
    /\ UNCHANGED <<exports, ctxDone, connClosed, peerClosed, srv_reply, srv_log, dev, clVars,
                   lasVars>>

\* serve: req.decode(e) through the cancellation-aware reader, then the switch.  A read
\* returns ctx.Err() once ctx is cancelled; a timeout of the stream is retried.
SrvRequest ==
    /\ srv_pc = "transmission"
    /\ \/ /\ ctxDone
          /\ srv_err' = "context canceled"
          /\ srv_pc' = "returned"
          /\ UNCHANGED <<c2s, srv_reply, srv_log, dev>>
       \/ /\ ~ctxDone
          /\ \E dec \in {request_decode(c2s)} :
             \/ /\ dec.st = "need" /\ peerClosed
                /\ c2s' = <<>>
                /\ srv_err' = "unexpected EOF"
                /\ srv_pc' = "returned"
                /\ UNCHANGED <<srv_reply, srv_log, dev>>
             \/ /\ dec.st = "fatal"
                /\ c2s' = SubSeq(c2s, dec.n + 1, Len(c2s))
                /\ srv_err' = "invalid magic for request"
                /\ srv_pc' = "returned"
                /\ UNCHANGED <<srv_reply, srv_log, dev>>
             \/ /\ dec.st = "panic"
                /\ c2s' = SubSeq(c2s, dec.n + 1, Len(c2s))
                /\ srv_pc' = "panicked"
                /\ UNCHANGED <<srv_err, srv_reply, srv_log, dev>>
             \/ /\ dec.st = "ok"
                /\ c2s' = SubSeq(c2s, dec.n + 1, Len(c2s))
                /\ \E out \in DevOutcomes :
                     \E h \in {serveRequest(dec, dev, out)} :
                     /\ h.called = "none" => out = "ok"
                     /\ dev' = h.dev
                     /\ srv_reply' = replyWrites(h.reply)
                     /\ srv_pc' = IF h.ret THEN "returned" ELSE "reply"
                     /\ srv_log' = Append(srv_log,
                            [req |-> dec.req, n |-> dec.n, err |-> dec.err, called |-> h.called,
                             out |-> IF h.called = "none" THEN "none"
                                     ELSE IF out = "ok" /\ h.called # "Sync" /\ ~InDev(dec.req)
                                     THEN "plain" ELSE out,
                             dev |-> dev, after |-> h.dev, reply |-> <<>>, done |-> FALSE])
                /\ UNCHANGED srv_err
    /\ UNCHANGED <<exports, ctxDone, s2c, connClosed, peerClosed, srv_parms, srv_last,
                   clVars, lasVars>>

\* serve: one write of simpleReply.encode through the cancellation-aware writer, which
\* returns ctx.Err() once ctx is cancelled
SrvReply ==
    /\ srv_pc = "reply"
    /\ IF ctxDone
       THEN /\ srv_err' = "context canceled"
            /\ srv_pc' = "returned"
            /\ srv_reply' = <<>>
            /\ UNCHANGED <<s2c, srv_log>>
       ELSE /\ s2c' = s2c \o Head(srv_reply)
            /\ srv_reply' = Tail(srv_reply)
            /\ srv_pc' = IF Tail(srv_reply) = <<>> THEN "transmission" ELSE "reply"
            /\ srv_log' = [srv_log EXCEPT ![Len(srv_log)].reply = @ \o Head(srv_reply),
                                          ![Len(srv_log)].done = (Tail(srv_reply) = <<>>)]
            /\ UNCHANGED srv_err
    /\ UNCHANGED <<exports, ctxDone, c2s, connClosed, peerClosed, srv_parms, srv_last, dev,
                   clVars, lasVars>>

Handle(h) == <<0, 0, 0, 0, 0, 0, 0, h>>

\* request frames a peer may write
RawRequests ==
    { request_encode(cmdRead, Handle(1), BE64(0), <<>>) ,
      SubSeq(request_encode(cmdRead, Handle(2), BE64(1), <<0>>), 1, 28),
      request_encode(cmdWrite, Handle(3), BE64(1), <<7>>),
      request_encode(cmdWrite, Handle(4), <<128, 0, 0, 0, 0, 0, 0, 0>>, <<7>>),
      request_encode(cmdDisc, Handle(5), BE64(0), <<>>),
      request_encode(cmdDisc, Handle(9), <<128, 0, 0, 0, 0, 0, 0, 0>>, <<>>),
      request_encode(cmdFlush, Handle(6), BE64(0), <<>>),
      request_encode(cmdFlush, Handle(7), BE64(1), <<>>),
      request_encode(4, Handle(8), BE64(0), <<>>),
      request_encode(cmdWrite, Handle(10), BE64(0), <<>>),
      request_encode(cmdRead, Handle(11), <<128, 0, 0, 0, 0, 0, 0, 0>>, <<>>),
      reqMagic \o BE16(0) \o BE16(cmdWrite) \o Handle(12) \o BE64(0) \o <<0, 64, 0, 1>>,
      <<0, 0, 0, 0>> }

\* a peer writes a request frame once the server is in the transmission phase
RawRequest(frame) ==
    /\ cl_hs = "kernel"
    /\ cl_pc \in {"idle", "raw"}
    /\ srv_pc \in {"transmission", "reply"}
    /\ Len(cl_hist) < MaxMsgs
    /\ c2s' = c2s \o frame
    /\ cl_pc' = "raw"
    /\ cl_hist' = Append(cl_hist, [op |-> "request", name |-> frame])
    /\ UNCHANGED <<exports, ctxDone, s2c, connClosed, peerClosed, srvVars, cl_hs, cl_closed,
                   cl_op, cl_res, lasVars>>

\* the goroutine of ListenAndServe: c.Close() after Serve returned
ConnClose ==
    /\ srv_pc = "returned"
    /\ srv_pc' = "closed"
    /\ connClosed' = TRUE
    /\ UNCHANGED <<exports, ctxDone, c2s, s2c, peerClosed, srv_err, srv_parms, srv_last,
                   srv_reply, srv_log, dev, clVars, lasVars>>

\* the caller cancels ctx while Serve runs
Cancel ==
    /\ ~ctxDone
    /\ srv_pc \notin {"returned", "closed", "panicked", "foreign"}
    /\ ctxDone' = TRUE
    /\ UNCHANGED <<exports, c2s, s2c, connClosed, peerClosed, srvVars, clVars, lasVars>>

(***************************************************************************)
(* The peer.  It is the package's Client (ClientHandshake, then List,      *)
(* Info, Go, Abort), or a peer that writes its flags and option frames     *)
(* itself (RawHandshake, RawOption) and does not read the replies, or the  *)
(* kernel, which writes request frames (RawRequest).  A Client may also    *)
(* talk to a server that is not this package's (ForeignHello,              *)
(* ForeignReply).                                                          *)
(***************************************************************************)
\* the 16-bit handshake flags a foreign server may send
ForeignFlags == {3, 7, 1}

\* a foreign server writes its greeting: the two magics and its handshake flags
ForeignHello(f) ==
    /\ srv_pc = "foreign"
    /\ cl_pc = "start" /\ s2c = <<>>
    /\ s2c' = nbdMagic \o optMagic \o BE16(f)
    /\ srv_last' = [NoLast EXCEPT !.out = nbdMagic \o optMagic \o BE16(f)]
    /\ UNCHANGED <<exports, ctxDone, c2s, connClosed, peerClosed, srv_pc, srv_err, srv_parms,
                   srv_reply, srv_log, dev, clVars, lasVars>>

\* the reply frames a foreign server may send to the option with code c
ForeignReplies(c) ==
    { encodeReply(BE32(c), repAck),
      encodeReply(BE32(c), repServer(NameA, <<>>)),
      encodeReply(BE32(c), infoExport(1024, 1)),
      encodeReply(BE32(c), infoName(NameA)),
      encodeReply(BE32(c), repError(errUnknown, <<>>)) }

\* a foreign server answers the option the Client is waiting on with one reply frame
ForeignReply(frame) ==
    /\ srv_pc = "foreign"
    /\ cl_pc = "recv" /\ s2c = <<>>
    /\ Len(cl_op.list) < MaxMsgs
    /\ s2c' = frame
    /\ UNCHANGED <<exports, ctxDone, c2s, connClosed, peerClosed, srvVars, clVars, lasVars>>


\* the error ClientHandshake ends with, given the 18 bytes of the server's greeting
checkServerHello(h) ==
    IF Bytes(h, 1, 8) # nbdMagic THEN "invalid magic from server"
    ELSE IF Bytes(h, 9, 8) # optMagic THEN "invalid magic from server"
    ELSE IF Val(Bytes(h, 17, 2)) % 4 # flagDefaults THEN "refusing deprecated handshake flags"
    ELSE "nil"

\* ClientHandshake: two magics and the server flags are read, e.writeUint32(flagDefaults)
ClientHandshake ==
    /\ cl_pc = "start"
    /\ \/ /\ Len(s2c) >= 18
          /\ LET err == checkServerHello(Bytes(s2c, 1, 18)) IN
             /\ s2c' = SubSeq(s2c, 19, Len(s2c))
             /\ c2s' = IF err = "nil" THEN c2s \o BE32(flagDefaults) ELSE c2s
             /\ cl_pc' = IF err = "nil" THEN "idle" ELSE "failed"
             /\ cl_res' = [NoRes EXCEPT !.op = "ClientHandshake", !.err = err]
       \/ /\ Len(s2c) < 18 /\ connClosed
          /\ s2c' = <<>>
          /\ c2s' = c2s
          /\ cl_pc' = "failed"
          /\ cl_res' = [NoRes EXCEPT !.op = "ClientHandshake", !.err = "unexpected EOF"]
    /\ cl_hs' = "ClientHandshake"
    /\ UNCHANGED <<exports, ctxDone, connClosed, peerClosed, srvVars, cl_closed, cl_op, cl_hist,
                   lasVars>>

\* the 16-bit flags a peer may write itself
RawFlags == {3, 1, 4, 7}

\* a peer reads the greeting and writes 16 bits of client flags
RawHandshake(f) ==
    /\ cl_pc = "start"
    /\ srv_pc # "foreign"
    /\ Len(s2c) >= 18
    /\ s2c' = SubSeq(s2c, 19, Len(s2c))
    /\ c2s' = c2s \o BE16(f)
    /\ cl_pc' = "idle"
    /\ cl_hs' = IF f = flagDefaults THEN "raw" ELSE "raw-other"
    /\ UNCHANGED <<exports, ctxDone, connClosed, peerClosed, srvVars, cl_closed, cl_op, cl_res,
                   cl_hist, lasVars>>

\* the option code of a Client method
opCode(op) == CASE op = "List" -> cOptList [] op = "Abort" -> cOptAbort
                [] op = "Info" -> cOptInfo [] op = "Go" -> cOptGo [] OTHER -> 0

\* the frame c.send writes for a Client method
opFrame(op, name) ==
    IF op \in {"Info", "Go"} THEN send(opCode(op), optInfo_encode(name, infoReqs))
    ELSE send(opCode(op), <<>>)

\* the Client method op returns err; Go always sets c.closed, Abort after recv returned
Return(op, err, list, ex, closed) ==
    /\ cl_res' = [op |-> op, err |-> err, list |-> list, ex |-> ex]
    /\ cl_op' = NoOp
    /\ cl_pc' = "idle"
    /\ cl_closed' = closed

\* Client.List, Info, Go, Abort up to the end of c.send
ClCall(op, name) ==
    /\ cl_hs = "ClientHandshake"
    /\ cl_pc = "idle"
    /\ Len(cl_hist) < MaxMsgs
    /\ cl_hist' = Append(cl_hist, [op |-> op, name |-> name])
    /\ IF cl_closed
       THEN /\ Return(op, "use of closed client", <<>>, ZeroExport, TRUE)
            /\ c2s' = c2s
       ELSE /\ c2s' = c2s \o opFrame(op, name)
            /\ cl_op' = [op |-> op, name |-> name, list |-> <<>>, ex |-> ZeroExport]
            /\ cl_pc' = "recv"
            /\ UNCHANGED <<cl_res, cl_closed>>
    /\ UNCHANGED <<exports, ctxDone, s2c, connClosed, peerClosed, srvVars, cl_hs, lasVars>>

\* the switch of Client.info on a reply
infoStep(ex, rep) ==
    CASE rep.kind = "infoExport" -> [ex EXCEPT !.Size = rep.size, !.Flags = rep.flags]
      [] rep.kind = "infoName" -> [ex EXCEPT !.Name = rep.name]
      [] rep.kind = "infoDescription" -> [ex EXCEPT !.Description = rep.description]
      [] rep.kind = "infoBlockSize" -> [ex EXCEPT !.BlockSizes = rep.bs]
      [] OTHER -> ex

\* one c.recv of the method in progress and the switch on its reply
ClRecv ==
    /\ cl_pc = "recv"
    /\ \E r \in {recv(s2c, opCode(cl_op.op))} :
       LET op == cl_op.op
           isGo == (op = "Go")
       IN
       \/ /\ r.st = "need" /\ connClosed
          /\ s2c' = <<>>
          /\ Return(op, "unexpected EOF", cl_op.list, cl_op.ex, isGo)
       \/ /\ r.st = "fatal"
          /\ s2c' = SubSeq(s2c, r.n + 1, Len(s2c))
          /\ Return(op, r.err, cl_op.list, cl_op.ex, isGo)
       \/ /\ r.st = "panic"
          /\ s2c' = SubSeq(s2c, r.n + 1, Len(s2c))
          /\ cl_pc' = "panicked"
          /\ UNCHANGED <<cl_op, cl_res, cl_closed>>
       \/ /\ r.st = "ok"
          /\ s2c' = SubSeq(s2c, r.n + 1, Len(s2c))
          /\ CASE op = "Abort" ->
                    Return(op, IF r.rep.kind = "ack" THEN "nil"
                               ELSE "invalid response to abort request", <<>>, ZeroExport, TRUE)
               [] op = "List" ->
                    IF r.rep.kind = "ack" THEN Return(op, "nil", cl_op.list, ZeroExport, FALSE)
                    ELSE IF r.rep.kind = "server"
                    THEN /\ cl_op' = [cl_op EXCEPT !.list = Append(@, r.rep.name)]
                         /\ UNCHANGED <<cl_pc, cl_res, cl_closed>>
                    ELSE Return(op, "invalid response to list request", cl_op.list, ZeroExport, FALSE)
               [] OTHER ->
                    IF r.rep.kind = "ack" THEN Return(op, "nil", <<>>, cl_op.ex, isGo)
                    ELSE IF r.rep.kind \in {"infoExport", "infoName", "infoDescription", "infoBlockSize"}
                    THEN /\ cl_op' = [cl_op EXCEPT !.ex = infoStep(@, r.rep)]
                         /\ UNCHANGED <<cl_pc, cl_res, cl_closed>>
                    ELSE Return(op, "invalid response to info request", <<>>, cl_op.ex, isGo)
    /\ UNCHANGED <<exports, ctxDone, c2s, connClosed, peerClosed, srvVars, cl_hs, cl_hist, lasVars>>

\* option frames a peer may write itself
RawFrames ==
    {send(cOptExportName, n) : n \in PeerNames}
    \cup {send(c, optInfo_encode(n, rq)) : c \in {cOptInfo, cOptGo}, n \in {NameA, NameC},
                                            rq \in {<<>>, <<cInfoName, cInfoBlockSize>>}}
    \cup {send(cOptGo, optInfo_encode(NameB, <<>>)), send(cOptInfo, <<>>),
          send(cOptAbort, <<>>), send(cOptAbort, <<0>>), send(cOptList, <<>>), send(cOptList, <<0>>),
          send(5, <<>>), send(5, <<1, 2>>),
          send(cOptInfo, BE32(1) \o NameA \o BE16(1)),
          optMagic \o BE32(cOptList) \o BE32(5000),
          <<0, 0, 0, 0, 0, 0, 0, 0>>}

\* a peer writes an option frame and does not read the replies (a frame written after
\* Serve returned is never read)
RawOption(frame) ==
    /\ cl_hs = "raw"
    /\ cl_pc \in {"idle", "raw"}
    /\ srv_pc \notin {"returned", "closed", "panicked"}
    /\ Len(cl_hist) < MaxMsgs
    /\ c2s' = c2s \o frame
    /\ cl_pc' = "raw"
    /\ cl_hist' = Append(cl_hist, [op |-> "raw", name |-> frame])
    /\ UNCHANGED <<exports, ctxDone, s2c, connClosed, peerClosed, srvVars, cl_hs, cl_closed,
                   cl_op, cl_res, lasVars>>

\* the peer closes its end of the connection while Serve runs
PeerClose ==
    /\ ~peerClosed
    /\ srv_pc \notin {"returned", "closed", "panicked"}
    /\ cl_pc \in {"start", "idle", "raw", "failed"}
    /\ peerClosed' = TRUE
    /\ cl_pc' = "gone"
    /\ UNCHANGED <<exports, ctxDone, c2s, s2c, connClosed, srvVars, cl_hs, cl_closed, cl_op,
                   cl_res, cl_hist, lasVars>>

Next ==
    \/ SrvHello
    \/ SrvFlags
    \/ SrvOption
    \/ SrvRequest
    \/ SrvReply
    \/ ConnClose
    \/ Cancel
    \/ ClientHandshake
    \/ \E f \in RawFlags : RawHandshake(f)
    \/ \E op \in {"List", "Abort"} : ClCall(op, <<>>)
    \/ \E op \in {"Info", "Go"}, n \in PeerNames : ClCall(op, n)
    \/ ClRecv
    \/ \E fr \in RawFrames : RawOption(fr)
    \/ \E fr \in RawRequests : RawRequest(fr)
    \/ PeerClose
    \/ \E f \in ForeignFlags : ForeignHello(f)
    \/ \E fr \in ForeignReplies(opCode(cl_op.op)) : ForeignReply(fr)

Spec == Init /\ [][Next]_vars

\* Serve and the goroutine around it take their steps; the peer and the caller need not
FairSpec ==
    /\ Spec
    /\ WF_vars(SrvHello) /\ WF_vars(SrvFlags) /\ WF_vars(SrvOption)
    /\ WF_vars(SrvRequest) /\ WF_vars(SrvReply) /\ WF_vars(ConnClose)
    /\ WF_vars(ClRecv)

(***************************************************************************)
(* SpecLAS: ListenAndServe.  A connection goroutine runs Serve: the        *)
(* handshake reads the raw connection and ends only on what the peer       *)
(* does.  serverHandshake never returns nil (no case of its type switch    *)
(* matches a decoded option), so Serve returns with the handshake's error. *)
(***************************************************************************)
HSIdle ==
    /\ exports = <<>>
    /\ c2s = <<>> /\ s2c = <<>>
    /\ connClosed = FALSE /\ peerClosed = FALSE
    /\ srv_pc = "idle" /\ srv_err = "nil"
    /\ srv_parms = [Export |-> ZeroExport, BlockSizes |-> defaultBlockSizes]
    /\ srv_last = NoLast
    /\ srv_reply = <<>> /\ srv_log = <<>>
    /\ dev = DevInit
    /\ cl_pc = "idle" /\ cl_hs = "none" /\ cl_closed = FALSE
    /\ cl_op = NoOp /\ cl_res = NoRes /\ cl_hist = <<>>

hsRest == <<exports, c2s, s2c, connClosed, peerClosed, srvVars, clVars, waitVars, nlVars>>

InitLAS ==
    /\ HSIdle
    /\ ctxDone = FALSE
    /\ las_pc = "listen" /\ las_err = "nil" /\ lfail = FALSE /\ backlog = 0 /\ wg = 0
    /\ conn = [i \in 1..MaxConns |-> "none"]
    /\ WaitIdle /\ NLIdle

\* net.Listen succeeds and binds the descriptor of the listener l; defer wg.Wait()
ListenOK ==
    /\ las_pc = "listen"
    /\ las_pc' = "accept"
    /\ fds' = fds \cup {"listener"}
    /\ UNCHANGED <<ctxDone, las_err, lfail, backlog, wg, conn, exports, c2s, s2c, connClosed,
                   peerClosed, srvVars, clVars, wait_pc, wait_err, wait_log, lb_pc, nlVars>>

\* net.Listen fails: return err
ListenFail ==
    /\ las_pc = "listen"
    /\ lfail' = TRUE
    /\ las_err' = "listen error"
    /\ las_pc' = "returned"
    /\ UNCHANGED <<ctxDone, backlog, wg, conn, hsRest>>

\* a peer connects to the listener
Connect ==
    /\ las_pc = "accept"
    /\ ~lfail
    /\ backlog + Cardinality({i \in 1..MaxConns : conn[i] # "none"}) < MaxConns
    /\ backlog' = backlog + 1
    /\ UNCHANGED <<ctxDone, las_pc, las_err, lfail, wg, conn, hsRest>>

\* l.Accept() returns a connection: wg.Add(1) and the go statement
Accept ==
    /\ las_pc = "accept"
    /\ backlog > 0
    /\ LET i == CHOOSE j \in 1..MaxConns : conn[j] = "none" /\ \A k \in 1..(j - 1) : conn[k] # "none"
       IN conn' = [conn EXCEPT ![i] = "hello"]
    /\ backlog' = backlog - 1
    /\ wg' = wg + 1
    /\ UNCHANGED <<ctxDone, las_pc, las_err, lfail, hsRest>>

\* the listener fails
ListenerFail ==
    /\ las_pc = "accept"
    /\ ~lfail
    /\ lfail' = TRUE
    /\ UNCHANGED <<ctxDone, las_pc, las_err, backlog, wg, conn, hsRest>>

\* AcceptErr that also gives up when the Serve of a connection returned a handshake error
AcceptErr_OnConnError ==
    /\ las_pc = "accept"
    /\ lfail \/ \E i \in 1..MaxConns : conn[i] = "hserr"
    /\ las_err' = "accept error"
    /\ las_pc' = "wait"
    /\ UNCHANGED <<ctxDone, lfail, backlog, wg, conn, hsRest>>

\* l.Accept() returns an error: return err, which runs the deferred wg.Wait()
AcceptErr ==
    /\ las_pc = "accept"
    /\ lfail
    /\ las_err' = "accept error"
    /\ las_pc' = "wait"
    /\ UNCHANGED <<ctxDone, lfail, backlog, wg, conn, hsRest>>

\* WaitDone without the wait: ListenAndServe returns while the counter is not zero
WaitDone_NoWait ==
    /\ las_pc = "wait"
    /\ las_pc' = "returned"
    /\ UNCHANGED <<ctxDone, las_err, lfail, backlog, wg, conn, hsRest>>

\* the deferred wg.Wait() returns, and with it ListenAndServe
WaitDone ==
    /\ las_pc = "wait"
    /\ wg = 0
    /\ las_pc' = "returned"
    /\ UNCHANGED <<ctxDone, las_err, lfail, backlog, wg, conn, hsRest>>

\* Serve: serverHandshake writes the two magics and its flags
HsHello(i) ==
    /\ conn[i] = "hello"
    /\ conn' = [conn EXCEPT ![i] = "flags"]
    /\ UNCHANGED <<ctxDone, las_pc, las_err, lfail, backlog, wg, hsRest>>

\* Serve: serverHandshake reads the client flags the peer sent: flagDefaults (ok), or
\* another value or the end of the stream, on which e.check ends the handshake
HsFlags(i, ok) ==
    /\ conn[i] = "flags"
    /\ conn' = [conn EXCEPT ![i] = IF ok THEN "options" ELSE "hserr"]
    /\ UNCHANGED <<ctxDone, las_pc, las_err, lfail, backlog, wg, hsRest>>

\* Serve: the option loop ends on an invalid option magic or the end of the stream
HsOptionFails(i) ==
    /\ conn[i] = "options"
    /\ conn' = [conn EXCEPT ![i] = "hserr"]
    /\ UNCHANGED <<ctxDone, las_pc, las_err, lfail, backlog, wg, hsRest>>

\* the goroutine after Serve: c.Close() and the deferred wg.Done()
ConnDone(i) ==
    /\ conn[i] = "hserr"
    /\ conn' = [conn EXCEPT ![i] = "done"]
    /\ wg' = wg - 1
    /\ UNCHANGED <<ctxDone, las_pc, las_err, lfail, backlog, hsRest>>

\* the caller of ListenAndServe cancels ctx
CancelLAS ==
    /\ ~ctxDone
    /\ las_pc # "returned"
    /\ ctxDone' = TRUE
    /\ UNCHANGED <<las_pc, las_err, lfail, backlog, wg, conn, hsRest>>

NextLAS ==
    \/ ListenOK
    \/ ListenFail
    \/ Connect
    \/ Accept
    \/ ListenerFail
    \/ AcceptErr
    \/ WaitDone
    \/ \E i \in 1..MaxConns : HsHello(i)
    \/ \E i \in 1..MaxConns, ok \in BOOLEAN : HsFlags(i, ok)
    \/ \E i \in 1..MaxConns : HsOptionFails(i)
    \/ \E i \in 1..MaxConns : ConnDone(i)
    \/ CancelLAS

SpecLAS == InitLAS /\ [][NextLAS]_vars

\* ListenAndServe and its goroutines take their steps; peers and the caller need not
FairSpecLAS ==
    /\ SpecLAS
    /\ WF_vars(ListenOK \/ ListenFail) /\ WF_vars(Accept) /\ WF_vars(AcceptErr) /\ WF_vars(WaitDone)
    /\ \A i \in 1..MaxConns : WF_vars(HsHello(i)) /\ WF_vars(ConnDone(i))

(***************************************************************************)
(* SpecFind: findExport applied to an export list and a name, as the       *)
(* cases of serverHandshake apply it: parms.Export, ok = findExport(name,  *)
(* exp).  The list is in exports, the name in cl_hist, the result in       *)
(* srv_parms.Export and srv_err.                                           *)
(***************************************************************************)
\* a second export named "a", and an export with the empty name
ExA2 == [Name |-> NameA, Description |-> <<>>, Size |-> 4096, Flags |-> 3, BlockSizes |-> "nil"]
ExE  == [Name |-> <<>>, Description |-> <<101>>, Size |-> 512, Flags |-> 1, BlockSizes |-> "nil"]

RECURSIVE SeqsUpTo(_, _)
\* the sequences of at most n elements of S
SeqsUpTo(S, n) ==
    IF n = 0 THEN {<<>>}
    ELSE SeqsUpTo(S, n - 1) \cup {Append(q, x) : q \in {r \in SeqsUpTo(S, n - 1) : Len(r) = n - 1}, x \in S}

\* the export lists findExport is applied to
FindLists == SeqsUpTo({ExA, ExB, ExA2, ExE}, MaxExports)

InitFind ==
    /\ exports \in FindLists
    /\ ctxDone = FALSE
    /\ c2s = <<>> /\ s2c = <<>>
    /\ connClosed = FALSE /\ peerClosed = FALSE
    /\ srv_pc = "idle" /\ srv_err = "nil"
    /\ srv_parms = [Export |-> ZeroExport, BlockSizes |-> defaultBlockSizes]
    /\ srv_last = NoLast
    /\ srv_reply = <<>> /\ srv_log = <<>>
    /\ dev = DevInit
    /\ cl_pc = "idle" /\ cl_hs = "none" /\ cl_closed = FALSE
    /\ cl_op = NoOp /\ cl_res = NoRes /\ cl_hist = <<>>
    /\ LASIdle

\* parms.Export, ok = findExport(name, exp); srv_err tells ok
FindExport(name) ==
    /\ srv_pc = "idle"
    /\ LET f == findExport(name, exports) IN
       /\ srv_parms' = [srv_parms EXCEPT !.Export = f.ex]
       /\ srv_err' = IF f.ok THEN "found" ELSE "not found"
    /\ srv_pc' = "returned"
    /\ cl_hist' = <<[op |-> "findExport", name |-> name]>>
    /\ UNCHANGED <<exports, ctxDone, c2s, s2c, connClosed, peerClosed, srv_last, srv_reply,
                   srv_log, dev, cl_pc, cl_hs, cl_closed, cl_op, cl_res, lasVars>>

NextFind == \E name \in PeerNames : FindExport(name)

SpecFind == InitFind /\ [][NextFind]_vars

(***************************************************************************)
(* SpecLoop: Loopback.  serve runs on one end of a socket pair in a        *)
(* goroutine of an errgroup; the kernel holds the other end and writes     *)
(* requests.  The wait function Loopback returns blocks in eg.Wait() until *)
(* serve returned, then disconnects the device and closes both sockets.    *)
(* A call of nbdnl.Disconnect or Close returns nil or an error.            *)
(***************************************************************************)
lasOnly == <<las_pc, las_err, lfail, backlog, wg, conn>>

\* the requests the kernel writes for the device: READ, WRITE, FLUSH, DISC
KernelRequests ==
    { SubSeq(request_encode(cmdRead, Handle(2), BE64(1), <<0>>), 1, 28),
      request_encode(cmdWrite, Handle(3), BE64(1), <<7>>),
      request_encode(cmdFlush, Handle(6), BE64(0), <<>>),
      request_encode(cmdDisc, Handle(5), BE64(0), <<>>) }

\* the error a call of nbdnl.Disconnect or of Close returns
CallErrors == {"nil", "EBADF"}

InitLoop == Init /\ cl_hs = "kernel"

\* the caller calls wait(); a call starts with its own err
WaitCall ==
    /\ wait_pc \in {"none", "returned"}
    /\ lb_pc \in {"none", "returned"}
    /\ wait_pc' = "egwait"
    /\ wait_err' = "nil"
    /\ wait_log' = <<>>
    /\ UNCHANGED <<hsVars, lasOnly, nlVars, lb_pc, fds>>

\* err := eg.Wait() without the test for context.Canceled and context.DeadlineExceeded
EgWait_NoFilter ==
    /\ wait_pc = "egwait"
    /\ srv_pc = "returned"
    /\ wait_err' = srv_err
    /\ wait_pc' = "disconnect"
    /\ wait_log' = Append(wait_log, [step |-> "eg.Wait", err |-> srv_err])
    /\ UNCHANGED <<hsVars, lasOnly, nlVars, lb_pc, fds>>

\* err := eg.Wait(); if err == context.Canceled || err == context.DeadlineExceeded { err = nil }
EgWait ==
    /\ wait_pc = "egwait"
    /\ srv_pc = "returned"
    /\ wait_err' = IF srv_err \in {"context canceled", "context deadline exceeded"}
                   THEN "nil" ELSE srv_err
    /\ wait_pc' = "disconnect"
    /\ wait_log' = Append(wait_log, [step |-> "eg.Wait", err |-> srv_err])
    /\ UNCHANGED <<hsVars, lasOnly, nlVars, lb_pc, fds>>

\* if e := nbdnl.Disconnect(idx); e != nil && err == nil { err = fmt.Errorf(...) }
WaitDisconnect(e) ==
    /\ wait_pc = "disconnect"
    /\ wait_err' = IF e # "nil" /\ wait_err = "nil" THEN "failed to disconnect device" ELSE wait_err
    /\ wait_pc' = "closeclient"
    /\ wait_log' = Append(wait_log, [step |-> "nbdnl.Disconnect", err |-> e])
    /\ UNCHANGED <<hsVars, lasOnly, nlVars, lb_pc, fds>>

\* a wait that closes the client socket only while err is nil
WaitCloseClient_Skip(e) ==
    /\ wait_pc = "closeclient"
    /\ wait_err' = IF e # "nil" /\ wait_err = "nil" THEN "failed to close client socket" ELSE wait_err
    /\ wait_pc' = "closeserver"
    /\ wait_log' = IF wait_err = "nil" THEN Append(wait_log, [step |-> "client.Close", err |-> e])
                   ELSE wait_log
    /\ fds' = fds \ {"client"}
    /\ UNCHANGED <<hsVars, lasOnly, nlVars, lb_pc>>

\* if e := client.Close(); e != nil && err == nil { err = fmt.Errorf(...) }
WaitCloseClient(e) ==
    /\ wait_pc = "closeclient"
    /\ wait_err' = IF e # "nil" /\ wait_err = "nil" THEN "failed to close client socket" ELSE wait_err
    /\ wait_pc' = "closeserver"
    /\ wait_log' = Append(wait_log, [step |-> "client.Close", err |-> e])
    /\ fds' = fds \ {"client"}
    /\ UNCHANGED <<hsVars, lasOnly, nlVars, lb_pc>>

\* if e := serverc.Close(); e != nil && err == nil { err = fmt.Errorf(...) }; return err
WaitCloseServer(e) ==
    /\ wait_pc = "closeserver"
    /\ wait_err' = IF e # "nil" /\ wait_err = "nil" THEN "failed to close server connection"
                   ELSE wait_err
    /\ wait_pc' = "returned"
    /\ wait_log' = Append(wait_log, [step |-> "serverc.Close", err |-> e])
    /\ connClosed' = TRUE
    /\ fds' = fds \ {"serverc"}
    /\ UNCHANGED <<exports, ctxDone, c2s, s2c, peerClosed, srvVars, clVars, lasOnly, nlVars, lb_pc>>

NextLoop ==
    \/ SrvRequest
    \/ SrvReply
    \/ \E fr \in KernelRequests : RawRequest(fr)
    \/ Cancel
    \/ PeerClose
    \/ WaitCall
    \/ EgWait
    \/ \E e \in CallErrors : WaitDisconnect(e)
    \/ \E e \in CallErrors : WaitCloseClient(e)
    \/ \E e \in CallErrors : WaitCloseServer(e)

SpecLoop == InitLoop /\ [][NextLoop]_vars

\* the goroutine of serve and a caller inside wait take their steps
FairSpecLoop ==
    /\ SpecLoop
    /\ WF_vars(SrvRequest) /\ WF_vars(SrvReply) /\ WF_vars(EgWait)
    /\ WF_vars(\E e \in CallErrors : WaitDisconnect(e))
    /\ WF_vars(\E e \in CallErrors : WaitCloseClient(e))
    /\ WF_vars(\E e \in CallErrors : WaitCloseServer(e))

(***************************************************************************)
(* SpecLoopback: Loopback from its first statement: the socket pair, the   *)
(* connection made of the server end, the kernel CONNECT through           *)
(* Configure, and then the serve task and the wait function of SpecLoop.   *)
(***************************************************************************)
InitLoopback ==
    /\ HSIdle
    /\ ctxDone = FALSE
    /\ las_pc = "idle" /\ las_err = "nil" /\ lfail = FALSE /\ backlog = 0 /\ wg = 0
    /\ conn = [i \in 1..MaxConns |-> "none"]
    /\ wait_pc = "none" /\ wait_err = "nil" /\ wait_log = <<>>
    /\ lb_pc = "start" /\ fds = {}
    /\ NLIdle

\* sp, err := unix.Socketpair(...); if err != nil { return }; client, server := os.NewFile(...)
Socketpair(ok) ==
    /\ lb_pc = "start"
    /\ lb_pc' = IF ok THEN "fileconn" ELSE "failed"
    /\ fds' = IF ok THEN {"client", "server"} ELSE fds
    /\ UNCHANGED <<hsVars, lasOnly, nlVars, wait_pc, wait_err, wait_log>>

\* serverc, err := net.FileConn(server), which duplicates the descriptor; server.Close();
\* if err != nil { client.Close(); return }
FileConn(ok) ==
    /\ lb_pc = "fileconn"
    /\ lb_pc' = IF ok THEN "configure" ELSE "failed"
    /\ fds' = IF ok THEN (fds \cup {"serverc"}) \ {"server"} ELSE fds \ {"server", "client"}
    /\ UNCHANGED <<hsVars, lasOnly, nlVars, wait_pc, wait_err, wait_log>>

\* idx, err = Configure(exp, client); if err != nil { client.Close(); return };
\* eg.Go(serve(ctx, serverc, connParameters{exp, defaultBlockSizes})); return idx, wait, nil
LoopConfigure(ok) ==
    /\ lb_pc = "configure"
    /\ lb_pc' = IF ok THEN "returned" ELSE "failed"
    /\ fds' = IF ok THEN fds ELSE fds \ {"client"}
    /\ srv_pc' = IF ok THEN "transmission" ELSE srv_pc
    /\ srv_parms' = IF ok THEN [Export |-> LoopExport, BlockSizes |-> defaultBlockSizes] ELSE srv_parms
    /\ cl_hs' = IF ok THEN "kernel" ELSE cl_hs
    /\ UNCHANGED <<exports, ctxDone, c2s, s2c, connClosed, peerClosed, srv_err, srv_last, srv_reply,
                   srv_log, dev, cl_pc, cl_closed, cl_op, cl_res, cl_hist, lasOnly, nlVars,
                   wait_pc, wait_err, wait_log>>

NextLoopback ==
    \/ \E ok \in BOOLEAN : Socketpair(ok)
    \/ \E ok \in BOOLEAN : FileConn(ok)
    \/ \E ok \in BOOLEAN : LoopConfigure(ok)
    \/ lb_pc = "returned" /\ NextLoop

SpecLoopback == InitLoopback /\ [][NextLoopback]_vars

(***************************************************************************)
(* SpecRT: the encoders and decoders of part of the protocol applied back  *)
(* to back.  The value is in cl_op, the bytes its encoder wrote in c2s,    *)
(* what the decoder made of them in srv_last.                              *)
(***************************************************************************)
\* requests: length is the field r.length, data the field r.data
RTRequests ==
    {[kind |-> "request", typ |-> t, handle |-> Handle(1), offset |-> off, length |-> l, data |-> <<>>] :
        t \in {cmdRead, cmdDisc, cmdFlush}, off \in {BE64(0), BE64(1)}, l \in {0, 1}}
    \cup
    {[kind |-> "request", typ |-> cmdWrite, handle |-> Handle(1), offset |-> off, length |-> Len(d), data |-> d] :
        off \in {BE64(0), BE64(1)}, d \in {<<>>, <<7>>}}

RTSimpleReplies ==
    {[kind |-> "simpleReply", errno |-> en, handle |-> h, data |-> d] :
        en \in {0, EIO}, h \in {Handle(1), <<1, 0, 0, 0, 0, 0, 0, 2>>}, d \in {<<>>, <<7>>}}

RTOptions ==
    {[kind |-> k, done |-> FALSE, name |-> <<>>, reqs |-> <<>>] : k \in {"*optAbort", "*optList"}}
    \cup
    {[kind |-> "*optInfo", done |-> dn, name |-> n, reqs |-> rq] :
        dn \in BOOLEAN, n \in {<<>>, NameA}, rq \in {<<>>, <<cInfoName>>, infoReqs}}

\* option replies, each with the value it was encoded from in the shape recv returns
RTReplies ==
    { [kind |-> "reply", rep |-> repAck, val |-> [NoRep EXCEPT !.kind = "ack"]],
      [kind |-> "reply", rep |-> infoExport(1024, 1),
       val |-> [NoRep EXCEPT !.kind = "infoExport", !.size = 1024, !.flags = 1]],
      [kind |-> "reply", rep |-> infoName(NameA), val |-> [NoRep EXCEPT !.kind = "infoName", !.name = NameA]],
      [kind |-> "reply", rep |-> infoDescription(<<100>>),
       val |-> [NoRep EXCEPT !.kind = "infoDescription", !.description = <<100>>]],
      [kind |-> "reply", rep |-> infoBlockSize(defaultBlockSizes),
       val |-> [NoRep EXCEPT !.kind = "infoBlockSize", !.bs = defaultBlockSizes]],
      [kind |-> "reply", rep |-> repError(errUnknown, <<>>),
       val |-> [NoRep EXCEPT !.kind = "error", !.errno = errUnknown]],
      [kind |-> "reply", rep |-> repError(errInvalid, <<109>>),
       val |-> [NoRep EXCEPT !.kind = "error", !.errno = errInvalid, !.details = <<109>>]] }
    \cup
    {[kind |-> "reply", rep |-> repServer(n, d),
      val |-> [NoRep EXCEPT !.kind = "server", !.name = n, !.details = d]] :
        n \in {<<>>, NameA}, d \in {<<>>, <<100>>}}

RTValues == RTRequests \cup RTSimpleReplies \cup RTOptions \cup RTReplies

\* the bytes the encoder of the value writes: request.encode, simpleReply.encode,
\* Client.send with the encode method of the option, encodeReply
RTEncoded(v) ==
    CASE v.kind = "request"     -> request_encode(v.typ, v.handle, v.offset, v.data)
      [] v.kind = "simpleReply" -> simpleReply_encode(v.errno, v.handle, v.data)
      [] v.kind = "*optAbort"   -> send(cOptAbort, <<>>)
      [] v.kind = "*optList"    -> send(cOptList, <<>>)
      [] v.kind = "*optInfo"    -> send(IF v.done THEN cOptGo ELSE cOptInfo, optInfo_encode(v.name, v.reqs))
      [] OTHER                  -> encodeReply(BE32(cOptInfo), v.rep)

\* (r *simpleReply).decode with r.length = length: the magic, eight bytes for the handle,
\* then length bytes that are dropped; errno and data are not assigned
simpleReply_decode(s, length) ==
    IF Len(s) < 4 THEN [st |-> "need", n |-> 0, rep |-> <<>>]
    ELSE IF Bytes(s, 1, 4) # simpleReplyMagic THEN [st |-> "fatal", n |-> 4, rep |-> <<>>]
    ELSE IF Len(s) < 12 + length THEN [st |-> "need", n |-> 4, rep |-> <<>>]
    ELSE [st |-> "ok", n |-> 12 + length,
          rep |-> [kind |-> "simpleReply", errno |-> 0, handle |-> Bytes(s, 5, 8), data |-> <<>>]]

InitRT ==
    /\ cl_op \in RTValues
    /\ exports = <<>>
    /\ ctxDone = FALSE
    /\ c2s = <<>> /\ s2c = <<>>
    /\ connClosed = FALSE /\ peerClosed = FALSE
    /\ srv_pc = "idle" /\ srv_err = "nil"
    /\ srv_parms = [Export |-> ZeroExport, BlockSizes |-> defaultBlockSizes]
    /\ srv_last = NoLast
    /\ srv_reply = <<>> /\ srv_log = <<>>
    /\ dev = DevInit
    /\ cl_pc = "idle" /\ cl_hs = "none" /\ cl_closed = FALSE
    /\ cl_res = NoRes /\ cl_hist = <<>>
    /\ LASIdle

\* the encoder writes the value to the stream
RTEncode ==
    /\ srv_pc = "idle"
    /\ c2s' = RTEncoded(cl_op)
    /\ s2c' = RTEncoded(cl_op)
    /\ srv_pc' = "encoded"
    /\ UNCHANGED <<exports, ctxDone, connClosed, peerClosed, srv_err, srv_parms, srv_last,
                   srv_reply, srv_log, dev, clVars, lasVars>>

\* the decoder of the same kind reads the stream; length is the field r.length a
\* simpleReply is decoded into (zero, or the length the caller expects)
RTDecode(length) ==
    /\ srv_pc = "encoded"
    /\ length = 0 \/ (cl_op.kind = "simpleReply" /\ length = Len(cl_op.data))
    /\ srv_last' = CASE cl_op.kind = "request"     -> request_decode(c2s)
                     [] cl_op.kind = "simpleReply" -> simpleReply_decode(c2s, length)
                     [] cl_op.kind = "reply"       -> recv(c2s, cOptInfo)
                     [] OTHER                      -> decodeOption(c2s)
    /\ c2s' = SubSeq(c2s, srv_last'.n + 1, Len(c2s))
    /\ srv_pc' = "decoded"
    /\ UNCHANGED <<exports, ctxDone, s2c, connClosed, peerClosed, srv_err, srv_parms,
                   srv_reply, srv_log, dev, clVars, lasVars>>

NextRT == RTEncode \/ \E length \in {0, 1} : RTDecode(length)

SpecRT == InitRT /\ [][NextRT]_vars

(***************************************************************************)
(* SpecNL: package nbdnl.  Goroutines call Connect, Reconfigure,           *)
(* Disconnect, Status and StatusAll; each calls dial and then              *)
(* conn.c.Execute on the shared session.  Whether the genetlink.Conn       *)
(* serialises Execute itself is a property of the library and is chosen    *)
(* in the initial state.                                                   *)
(***************************************************************************)
NLOps == {"Connect", "Reconfigure", "Disconnect", "Status", "StatusAll"}
Callers == 1..MaxCallers
DialResults == {"ok", "genetlink.Dial", "GetFamily"}
version == 1   \* the version of the nbd family the package needs

\* the netlink command of an operation
NLCommand(op) ==
    CASE op = "Connect"     -> "cmdconnect"
      [] op = "Reconfigure" -> "cmdReconfigure"
      [] op = "Disconnect"  -> "cmdDisconnect"
      [] OTHER              -> "cmdStatus"

\* the commands begun on the session so far
Begun == Len(SelectSeq(nl_log, LAMBDA ev : ev.ev = "begin"))

InitNL ==
    /\ HSIdle
    /\ ctxDone = FALSE
    /\ las_pc = "idle" /\ las_err = "nil" /\ lfail = FALSE /\ backlog = 0 /\ wg = 0
    /\ conn = [i \in 1..MaxConns |-> "none"]
    /\ WaitIdle
    /\ nl_mu = 0
    /\ \E sy \in BOOLEAN, v \in {0, version} :
          nl_conn = [c |-> FALSE, family |-> FALSE, sync |-> sy, lock |-> 0, version |-> v]
    /\ nl_pc = [i \in Callers |-> [pc |-> "idle", op |-> "none"]]
    /\ nl_log = <<>>

nlRest == <<hsVars, las_pc, las_err, lfail, backlog, wg, conn, waitVars>>

\* a goroutine enters Connect, Reconfigure, Disconnect, Status or StatusAll
NLCall(i, op) ==
    /\ nl_pc[i].pc = "idle"
    /\ Begun + Cardinality({j \in Callers : nl_pc[j].pc \in {"dial", "locked", "dialed"}}) < MaxCommands
    /\ nl_pc' = [nl_pc EXCEPT ![i] = [pc |-> "dial", op |-> op]]
    /\ UNCHANGED <<nl_mu, nl_conn, nl_log, nlRest>>

\* dial: conn.mu.Lock()
DialLock(i) ==
    /\ nl_pc[i].pc = "dial"
    /\ nl_mu = 0
    /\ nl_mu' = i
    /\ nl_pc' = [nl_pc EXCEPT ![i].pc = "locked"]
    /\ UNCHANGED <<nl_conn, nl_log, nlRest>>

\* a dial that calls genetlink.Dial whether or not conn.c is set
Dial_NoCheck(i, res) ==
    /\ nl_pc[i].pc = "locked"
    /\ res = "GetFamily" => ~nl_conn.family
    /\ LET recorded == res = "ok" /\ ~nl_conn.family /\ nl_conn.version >= version
           ev(n) == [ev |-> n, caller |-> i, cmd |-> "none", mu |-> nl_mu]
       IN  /\ nl_conn' = [nl_conn EXCEPT !.c = res # "genetlink.Dial", !.family = @ \/ recorded]
           /\ nl_pc' = [nl_pc EXCEPT ![i] = IF nl_conn'.c /\ nl_conn'.family THEN [@ EXCEPT !.pc = "dialed"]
                                            ELSE [pc |-> "idle", op |-> "none"]]
           /\ nl_log' = nl_log \o (IF res # "genetlink.Dial" THEN <<ev("genetlink.Dial")>> ELSE <<>>)
                               \o (IF recorded THEN <<ev("GetFamily")>> ELSE <<>>)
    /\ nl_mu' = 0
    /\ UNCHANGED nlRest

\* the body of dial and its deferred conn.mu.Unlock(): if conn.c is nil, genetlink.Dial,
\* whose error is returned; if conn.family is 0, GetFamily, whose error is returned, as
\* is an error when the family's version is below version; else the ID is recorded.
\* res is the call that fails, if one does.
Dial(i, res) ==
    /\ nl_pc[i].pc = "locked"
    /\ res = "genetlink.Dial" => ~nl_conn.c
    /\ res = "GetFamily" => ~nl_conn.family
    /\ LET dialled  == ~nl_conn.c /\ res # "genetlink.Dial"
           recorded == res = "ok" /\ ~nl_conn.family /\ nl_conn.version >= version
           ev(n) == [ev |-> n, caller |-> i, cmd |-> "none", mu |-> nl_mu]
       IN  /\ nl_conn' = [nl_conn EXCEPT !.c = @ \/ dialled, !.family = @ \/ recorded]
           /\ nl_pc' = [nl_pc EXCEPT ![i] = IF nl_conn'.c /\ nl_conn'.family THEN [@ EXCEPT !.pc = "dialed"]
                                            ELSE [pc |-> "idle", op |-> "none"]]
           /\ nl_log' = nl_log \o (IF dialled THEN <<ev("genetlink.Dial")>> ELSE <<>>)
                               \o (IF recorded THEN <<ev("GetFamily")>> ELSE <<>>)
    /\ nl_mu' = 0
    /\ UNCHANGED nlRest

\* conn.c.Execute(msg, conn.family, flags) sends the request
ExecuteBegin(i) ==
    /\ nl_pc[i].pc = "dialed"
    /\ nl_conn.sync => nl_conn.lock = 0
    /\ nl_conn' = [nl_conn EXCEPT !.lock = IF nl_conn.sync THEN i ELSE @]
    /\ nl_pc' = [nl_pc EXCEPT ![i].pc = "execute"]
    /\ nl_log' = Append(nl_log, [ev |-> "begin", caller |-> i, cmd |-> NLCommand(nl_pc[i].op), mu |-> nl_mu])
    /\ UNCHANGED <<nl_mu, nlRest>>

\* conn.c.Execute has received the response; the operation returns
ExecuteEnd(i) ==
    /\ nl_pc[i].pc = "execute"
    /\ nl_conn' = [nl_conn EXCEPT !.lock = 0]
    /\ nl_pc' = [nl_pc EXCEPT ![i] = [pc |-> "idle", op |-> "none"]]
    /\ nl_log' = Append(nl_log, [ev |-> "end", caller |-> i, cmd |-> NLCommand(nl_pc[i].op), mu |-> nl_mu])
    /\ UNCHANGED <<nl_mu, nlRest>>

NextNL ==
    \/ \E i \in Callers, op \in NLOps : NLCall(i, op)
    \/ \E i \in Callers : DialLock(i)
    \/ \E i \in Callers, res \in DialResults : Dial(i, res)
    \/ \E i \in Callers : ExecuteBegin(i)
    \/ \E i \in Callers : ExecuteEnd(i)

SpecNL == InitNL /\ [][NextNL]_vars

(***************************************************************************)
(* SpecStatus: Status and StatusAll of nbdnl over a reply of the kernel.   *)
(* The reply (the device entries of its messages, in order) and the error  *)
(* of Execute are in cl_op, the result of the call in cl_res.              *)
(***************************************************************************)
\* a list as it comes back from the status call
sortSlice_Unsorted(li) == {li}

\* sort.Slice(out, func(i, j int) bool { return out[i].Index < out[j].Index }): the
\* orders it can leave the list in (the sort is not stable)
sortSlice(li) ==
    {s \in {[k \in 1..Len(li) |-> li[p[k]]] :
                p \in {q \in [1..Len(li) -> 1..Len(li)] : \A a, b \in 1..Len(li) : a # b => q[a] # q[b]}} :
        \A a, b \in 1..Len(s) : a < b => ~(s[b].Index < s[a].Index)}

InitStatus ==
    /\ exports = <<>>
    /\ ctxDone = FALSE
    /\ c2s = <<>> /\ s2c = <<>>
    /\ connClosed = FALSE /\ peerClosed = FALSE
    /\ srv_pc = "idle" /\ srv_err = "nil"
    /\ srv_parms = [Export |-> ZeroExport, BlockSizes |-> defaultBlockSizes]
    /\ srv_last = NoLast
    /\ srv_reply = <<>> /\ srv_log = <<>>
    /\ dev = DevInit
    /\ cl_pc = "idle" /\ cl_hs = "none" /\ cl_closed = FALSE
    /\ \E n \in 0..MaxDevices, e \in CallErrors :
         \E li \in [1..n -> [Index : 0..2, Connected : BOOLEAN]] :
            cl_op = [op |-> "none", idx |-> 0, reply |-> li, err |-> e]
    /\ cl_res = NoRes /\ cl_hist = <<>>
    /\ LASIdle

\* StatusAll: li, err := status(IndexAny); the list, or nil and the error
StatusAll ==
    /\ cl_pc = "idle"
    /\ \E li \in sortSlice(cl_op.reply) :
          cl_res' = IF cl_op.err # "nil" THEN [li |-> <<>>, err |-> cl_op.err]
                    ELSE [li |-> li, err |-> "nil"]
    /\ cl_op' = [cl_op EXCEPT !.op = "StatusAll"]
    /\ cl_pc' = "returned"
    /\ UNCHANGED <<exports, ctxDone, c2s, s2c, connClosed, peerClosed, srvVars, cl_hs, cl_closed,
                   cl_hist, lasVars>>

\* Status(idx): li, err := status(idx); sort.Search for the first entry whose Index is
\* at least idx; that entry if its Index is idx, else "device not found"
Status(idx) ==
    /\ cl_pc = "idle"
    /\ \E li \in sortSlice(cl_op.reply) :
          LET found == {k \in 1..Len(li) : li[k].Index >= idx}
              i == IF found = {} THEN Len(li) + 1 ELSE CHOOSE k \in found : \A m \in found : k <= m
          IN  cl_res' = IF cl_op.err # "nil" THEN [li |-> <<>>, err |-> cl_op.err]
                        ELSE IF i <= Len(li) /\ li[i].Index = idx THEN [li |-> <<li[i]>>, err |-> "nil"]
                        ELSE [li |-> <<>>, err |-> "device not found"]
    /\ cl_op' = [cl_op EXCEPT !.op = "Status", !.idx = idx]
    /\ cl_pc' = "returned"
    /\ UNCHANGED <<exports, ctxDone, c2s, s2c, connClosed, peerClosed, srvVars, cl_hs, cl_closed,
                   cl_hist, lasVars>>

NextStatus == StatusAll \/ \E idx \in 0..3 : Status(idx)

SpecStatus == InitStatus /\ [][NextStatus]_vars

(***************************************************************************)
(* SpecCodec: one do() session whose function calls e.read and e.write on  *)
(* a connection wrapped by wrapConn.  c2s holds the bytes the connection   *)
(* has for c.Read, s2c the bytes c.Write has taken.  cl_op is the codec    *)
(* call in progress, srv_last the call of ctxRW.Read or ctxRW.Write in     *)
(* progress, srv_log the calls of ctxRW that have returned, cl_hist the    *)
(* bytes the codec reads have delivered and cl_res the number of codec     *)
(* calls made.  The peer sends the bytes 1, 2, ... in order, and the codec *)
(* writes the bytes 1, 2, ... in order.                                    *)
(***************************************************************************)
\* the fields ios and after of a call count calls of the connection as 0, 1 and 2, where
\* 2 stands for two or more: a call retries any number of times
Counted(n) == IF n < 2 THEN n + 1 ELSE n

NoCall == [op |-> "none", len |-> 0, p |-> <<>>, n |-> 0, buf |-> <<>>, pc |-> "none",
           err |-> "nil", late |-> FALSE, after |-> 0, ios |-> 0]

\* entry of Read or Write: var m int; err = rw.ctx.Err()
rwCall(op, p, len, done) ==
    [NoCall EXCEPT !.op = op, !.len = len, !.p = p, !.pc = "top",
                   !.err = IF done THEN "context canceled" ELSE "nil", !.late = done]

\* a maybeIgnore that hands every error on
maybeIgnore_Surface(err, done) == IF done THEN "context canceled" ELSE err

\* a maybeIgnore that does not look at the context
maybeIgnore_NoCtx(err, done) == IF err = "timeout" THEN "nil" ELSE err

\* maybeIgnore: ctx.Err() if the context is done, nil for a timeout, else err
maybeIgnore(err, done) ==
    IF done THEN "context canceled"
    ELSE IF err = "timeout" THEN "nil"
    ELSE err

\* an encoder whose read and write drop the error
codecErr_Dropped(c, got, want) == "nil"

\* the error e.read or e.write hands to check when the call c of ctxRW has returned:
\* io.ReadFull drops the error when the buffer is full and e.read makes io.EOF an
\* io.ErrUnexpectedEOF (io.ReadFull does so after a partial read)
codecErr(c, got, want) ==
    IF c.op = "Read" /\ got >= want THEN "nil"
    ELSE IF c.op = "Read" /\ c.err = "EOF" THEN "unexpected EOF"
    ELSE c.err

InitCodec ==
    /\ exports = <<>>
    /\ ctxDone = FALSE
    /\ c2s = <<>> /\ s2c = <<>>
    /\ connClosed = FALSE /\ peerClosed = FALSE
    /\ srv_pc = "transmission" /\ srv_err = "nil"
    /\ srv_parms = [Export |-> ZeroExport, BlockSizes |-> defaultBlockSizes]
    /\ srv_last = NoCall
    /\ srv_reply = <<>> /\ srv_log = <<>>
    /\ dev = DevInit
    /\ cl_pc = "idle" /\ cl_hs = "none" /\ cl_closed = FALSE
    /\ cl_op = [op |-> "none", want |-> 0, got |-> <<>>]
    /\ cl_res = 0 /\ cl_hist = <<>>
    /\ LASIdle

codecRest == <<exports, ctxDone, connClosed, peerClosed, srv_parms, dev, cl_pc, cl_hs, cl_closed, lasVars>>

\* the session function calls e.read(b) with len(b) = k: io.ReadFull calls rw.Read(b)
CodecRead(k) ==
    /\ srv_pc = "transmission" /\ cl_op.op = "none" /\ cl_res < MaxMsgs
    /\ cl_op' = [op |-> "read", want |-> k, got |-> <<>>]
    /\ srv_last' = rwCall("Read", <<>>, k, ctxDone)
    /\ cl_res' = cl_res + 1
    /\ UNCHANGED <<c2s, s2c, srv_pc, srv_err, srv_reply, srv_log, cl_hist, codecRest>>

\* the session function calls e.write(b) with len(b) = k outside buffered mode: rw.Write(b)
CodecWrite(k) ==
    /\ srv_pc = "transmission" /\ cl_op.op = "none" /\ cl_res < MaxMsgs
    /\ cl_op' = [op |-> "write", want |-> k, got |-> <<>>]
    /\ srv_last' = rwCall("Write", [j \in 1..k |-> Len(srv_reply) + j], k, ctxDone)
    /\ cl_res' = cl_res + 1
    /\ UNCHANGED <<c2s, s2c, srv_pc, srv_err, srv_reply, srv_log, cl_hist, codecRest>>

\* for err == nil && n < len(p) { rw.setDeadline(); m, err = rw.c.Read or rw.c.Write (p[n:])
rwLoop ==
    /\ srv_last.pc = "top"
    /\ srv_last.err = "nil" /\ srv_last.n < srv_last.len
    /\ srv_last' = [srv_last EXCEPT !.pc = "io", !.ios = Counted(@)]
    /\ UNCHANGED <<c2s, s2c, srv_pc, srv_err, srv_reply, srv_log, cl_op, cl_res, cl_hist, codecRest>>

\* rw.c.Read returns m bytes and the error e; n += m; if err == nil { return n, err };
\* err = rw.maybeIgnore(err)
ConnRead(m, e) ==
    /\ srv_last.pc = "io" /\ srv_last.op = "Read"
    /\ m <= Len(c2s) /\ m <= srv_last.len - srv_last.n
    /\ e = "nil" => m >= 1
    /\ e = "EOF" => m = 0 /\ peerClosed /\ c2s = <<>>
    /\ c2s' = SubSeq(c2s, m + 1, Len(c2s))
    /\ srv_last' = [srv_last EXCEPT !.n = @ + m, !.buf = @ \o SubSeq(c2s, 1, m),
                       !.after = IF ctxDone THEN Counted(@) ELSE @,
                       !.err = IF e = "nil" THEN "nil" ELSE maybeIgnore(e, ctxDone),
                       !.pc = IF e = "nil" THEN "ret" ELSE "top"]
    /\ UNCHANGED <<s2c, srv_pc, srv_err, srv_reply, srv_log, cl_op, cl_res, cl_hist, codecRest>>

\* rw.c.Write takes m bytes and returns the error e; n += m; err = rw.maybeIgnore(err)
ConnWrite(m, e) ==
    /\ srv_last.pc = "io" /\ srv_last.op = "Write"
    /\ m <= srv_last.len - srv_last.n
    /\ e = "nil" <=> m = srv_last.len - srv_last.n
    /\ e = "EPIPE" => peerClosed
    /\ s2c' = s2c \o SubSeq(srv_last.p, srv_last.n + 1, srv_last.n + m)
    /\ srv_last' = [srv_last EXCEPT !.n = @ + m,
                       !.after = IF ctxDone THEN Counted(@) ELSE @,
                       !.err = maybeIgnore(e, ctxDone),
                       !.pc = "top"]
    /\ UNCHANGED <<c2s, srv_pc, srv_err, srv_reply, srv_log, cl_op, cl_res, cl_hist, codecRest>>

\* return n, err of Read or Write, and what io.ReadFull, e.read or e.write and check make
\* of it: the next Read of io.ReadFull, the end of the codec call, or check(err), which
\* stores err as the result of do and unwinds to it
rwReturn ==
    /\ \/ srv_last.pc = "ret"
       \/ srv_last.pc = "top" /\ ~(srv_last.err = "nil" /\ srv_last.n < srv_last.len)
    /\ srv_log' = Append(srv_log, [srv_last EXCEPT !.pc = IF ctxDone THEN "cancelled" ELSE "running"])
    /\ \E got \in {cl_op.got \o srv_last.buf} :
       \E err \in {codecErr(srv_last, Len(got), cl_op.want)} :
          IF err # "nil"
          THEN /\ srv_err' = err /\ srv_pc' = "returned"
               /\ cl_op' = [cl_op EXCEPT !.got = got]
               /\ srv_last' = NoCall
               /\ UNCHANGED <<srv_reply, cl_hist>>
          ELSE IF cl_op.op = "read" /\ Len(got) < cl_op.want
          THEN /\ cl_op' = [cl_op EXCEPT !.got = got]
               /\ srv_last' = rwCall("Read", <<>>, cl_op.want - Len(got), ctxDone)
               /\ UNCHANGED <<srv_err, srv_pc, srv_reply, cl_hist>>
          ELSE /\ cl_op' = [op |-> "none", want |-> 0, got |-> <<>>]
               /\ srv_last' = NoCall
               /\ cl_hist' = cl_hist \o got
               /\ srv_reply' = IF cl_op.op = "write" THEN srv_reply \o srv_last.p ELSE srv_reply
               /\ UNCHANGED <<srv_err, srv_pc>>
    /\ UNCHANGED <<c2s, s2c, cl_res, codecRest>>

\* the peer sends its next byte
PeerWrite ==
    /\ srv_pc = "transmission" /\ ~peerClosed
    /\ Len(cl_hist) + Len(cl_op.got) + Len(srv_last.buf) + Len(c2s) < MaxBytes
    /\ c2s' = Append(c2s, Len(cl_hist) + Len(cl_op.got) + Len(srv_last.buf) + Len(c2s) + 1)
    /\ UNCHANGED <<s2c, srv_pc, srv_err, srv_last, srv_reply, srv_log, cl_op, cl_res, cl_hist, codecRest>>

NextCodec ==
    \/ \E k \in 1..MaxBytes : CodecRead(k)
    \/ \E k \in 1..MaxBytes : CodecWrite(k)
    \/ rwLoop
    \/ \E m \in 0..MaxBytes, e \in {"nil", "timeout", "EOF"} : ConnRead(m, e)
    \/ \E m \in 0..MaxBytes, e \in {"nil", "timeout", "EPIPE"} : ConnWrite(m, e)
    \/ rwReturn
    \/ PeerWrite
    \/ Cancel
    \/ PeerClose

SpecCodec == InitCodec /\ [][NextCodec]_vars

FairSpecCodec == SpecCodec /\ WF_vars(rwLoop) /\ WF_vars(rwReturn)
                   /\ WF_vars(\E m \in 0..MaxBytes, e \in {"nil", "timeout", "EOF"} : ConnRead(m, e))
                   /\ WF_vars(\E m \in 0..MaxBytes, e \in {"nil", "timeout", "EPIPE"} : ConnWrite(m, e))

(***************************************************************************)
(* SpecBuf: encodeReply and Client.send write one frame through an encoder *)
(* in buffered sub-message mode.  cl_op is the frame (its header and the   *)
(* bytes its encode method writes), srv_last the encoder (e.buf, nil or a  *)
(* slice) with the local buf and the position, s2c the stream.             *)
(***************************************************************************)
\* the frames: every option reply through encodeReply, every option request through send
BufFrames ==
    {[fn |-> "encodeReply", head |-> repMagic \o BE32(cOptInfo) \o v.rep.code, body |-> v.rep.body] :
        v \in RTReplies}
    \cup
    {[fn |-> "send",
      head |-> optMagic \o BE32(CASE v.kind = "*optAbort" -> cOptAbort [] v.kind = "*optList" -> cOptList
                                  [] OTHER -> IF v.done THEN cOptGo ELSE cOptInfo),
      body |-> IF v.kind = "*optInfo" THEN optInfo_encode(v.name, v.reqs) ELSE <<>>] :
        v \in RTOptions}

\* an e.write that takes an empty e.buf for no buffer
encoder_write_Empty(e, out, b) ==
    IF ~e.nil /\ e.b # <<>> THEN [e |-> [e EXCEPT !.b = @ \o b], out |-> out]
    ELSE [e |-> e, out |-> out \o b]

\* e.write(b): if e.buf != nil { e.buf = append(e.buf, b...); return }; e.rw.Write(b)
encoder_write(e, out, b) ==
    IF ~e.nil THEN [e |-> [e EXCEPT !.b = @ \o b], out |-> out]
    ELSE [e |-> e, out |-> out \o b]

InitBuf ==
    /\ exports = <<>>
    /\ ctxDone = FALSE
    /\ c2s = <<>> /\ s2c = <<>>
    /\ connClosed = FALSE /\ peerClosed = FALSE
    /\ srv_pc = "idle" /\ srv_err = "nil"
    /\ srv_parms = [Export |-> ZeroExport, BlockSizes |-> defaultBlockSizes]
    /\ srv_last = [pc |-> "start", e |-> [nil |-> TRUE, b |-> <<>>], buf |-> <<>>]
    /\ srv_reply = <<>> /\ srv_log = <<>>
    /\ dev = DevInit
    /\ cl_pc = "idle" /\ cl_hs = "none" /\ cl_closed = FALSE
    /\ cl_op \in BufFrames
    /\ cl_res = NoRes /\ cl_hist = <<>>
    /\ LASIdle

\* one statement of encodeReply or send after the other: the header (magic, option and,
\* for a reply, its code); e.buf = []byte{}; encode(e); buf, e.buf = e.buf, nil;
\* e.writeUint32(uint32(len(buf))); e.write(buf)
BufStep ==
    /\ srv_last.pc # "done"
    /\ \E w \in {encoder_write(srv_last.e, s2c,
                    CASE srv_last.pc = "start"    -> cl_op.head
                      [] srv_last.pc = "buffered" -> cl_op.body
                      [] srv_last.pc = "captured" -> BE32(Len(srv_last.buf))
                      [] srv_last.pc = "length"   -> srv_last.buf
                      [] OTHER                    -> <<>>)} :
          /\ s2c' = w.out
          /\ srv_last' =
                CASE srv_last.pc = "start"    -> [srv_last EXCEPT !.pc = "header", !.e = w.e]
                  [] srv_last.pc = "header"   -> [srv_last EXCEPT !.pc = "buffered", !.e = [nil |-> FALSE, b |-> <<>>]]
                  [] srv_last.pc = "buffered" -> [srv_last EXCEPT !.pc = "encoded", !.e = w.e]
                  [] srv_last.pc = "encoded"  -> [srv_last EXCEPT !.pc = "captured", !.buf = srv_last.e.b,
                                                                 !.e = [nil |-> TRUE, b |-> <<>>]]
                  [] srv_last.pc = "captured" -> [srv_last EXCEPT !.pc = "length", !.e = w.e]
                  [] OTHER                    -> [srv_last EXCEPT !.pc = "done", !.e = w.e]
    /\ UNCHANGED <<exports, ctxDone, c2s, connClosed, peerClosed, srv_pc, srv_err, srv_parms,
                   srv_reply, srv_log, dev, clVars, lasVars>>

SpecBuf == InitBuf /\ [][BufStep]_vars

(***************************************************************************)
(* SpecDiscard: e.discard(n) on a stream.  cl_op holds n, c2s the bytes of *)
(* the stream, peerClosed whether the stream ends behind them, srv_last    *)
(* the outcome of the call.                                                *)
(***************************************************************************)
InitDiscard ==
    /\ exports = <<>>
    /\ ctxDone = FALSE
    /\ \E len \in {0, 1, 2, 511, 512, 513, 1024} : c2s = [j \in 1..len |-> j % 256]
    /\ s2c = <<>>
    /\ connClosed = FALSE /\ peerClosed \in BOOLEAN
    /\ srv_pc = "idle" /\ srv_err = "nil"
    /\ srv_parms = [Export |-> ZeroExport, BlockSizes |-> defaultBlockSizes]
    /\ srv_last = [st |-> "none", n |-> 0]
    /\ srv_reply = <<>> /\ srv_log = <<>>
    /\ dev = DevInit
    /\ cl_pc = "idle" /\ cl_hs = "none" /\ cl_closed = FALSE
    /\ \E n \in {0, 1, 2, 511, 512, 513, 1024} : cl_op = [n |-> n]
    /\ cl_res = NoRes /\ cl_hist = <<>>
    /\ LASIdle

\* e.discard(n) runs to its end: it returns, panics, fails in e.read with
\* io.ErrUnexpectedEOF at the end of the stream, or stays blocked in e.read
Discard ==
    /\ srv_last.st = "none"
    /\ \E r \in {discard(c2s, 1, cl_op.n)} :
          /\ srv_last' = [st |-> IF r.st # "need" THEN r.st
                                ELSE IF peerClosed THEN "unexpected EOF" ELSE "blocked",
                          n  |-> IF r.st = "need" THEN Len(c2s) ELSE r.n]
          /\ c2s' = SubSeq(c2s, srv_last'.n + 1, Len(c2s))
    /\ UNCHANGED <<exports, ctxDone, s2c, connClosed, peerClosed, srv_pc, srv_err, srv_parms,
                   srv_reply, srv_log, dev, clVars, lasVars>>

SpecDiscard == InitDiscard /\ [][Discard]_vars

(***************************************************************************)
(* Properties.                                                             *)
(***************************************************************************)
\* name selects an export of exp: the empty name the first one, any other name by equality
Selects(name, exp) == (name = <<>> /\ Len(exp) > 0) \/ \E i \in 1..Len(exp) : exp[i].Name = name
Selected(name, exp) ==
    IF name = <<>> THEN exp[1]
    ELSE exp[CHOOSE i \in 1..Len(exp) : exp[i].Name = name /\ \A j \in 1..(i - 1) : exp[j].Name # name]

ServeRunning == srv_pc \in {"hello", "flags", "options", "transmission", "reply"}
ServeDone    == srv_pc \in {"returned", "closed"}

\* C1: when ctx is cancelled while ListenAndServe blocks in Accept, ListenAndServe
\* eventually returns, and it returns a nil error
C1_CancelReturnsNil ==
    (ctxDone /\ las_pc = "accept") ~> (las_pc = "returned" /\ las_err = "nil")

\* C2: when ctx is cancelled while Serve runs on a connection whose peer sends nothing more
\* (nothing is in flight, the peer neither writes nor closes), Serve eventually returns
\* with the cancellation error, in the handshake phase as in the transmission phase
C2_ServeCancelReturns ==
    \A k \in 0..(MaxMsgs + 1) :
        (ctxDone /\ ServeRunning /\ srv_pc # "hello" /\ c2s = <<>>
             /\ cl_pc \in {"idle", "raw"} /\ Len(cl_hist) = k)
        ~> \/ ServeDone /\ srv_err = "context canceled"
           \/ Len(cl_hist) > k
           \/ peerClosed

\* C3: when ListenAndServe has returned, every connection goroutine it spawned has
\* terminated (and the WaitGroup counter is zero)
C3_ReturnsAfterGoroutines ==
    las_pc = "returned" => wg = 0 /\ \A i \in 1..MaxConns : conn[i] \in {"none", "done"}

C3_Witness == las_pc = "returned" /\ \A i \in 1..MaxConns : conn[i] = "done"

\* C4: ListenAndServe leaves its accept loop only when the listener failed (or ctx was
\* cancelled), however many connections were accepted, failed their handshake or finished
C4_ReturnsOnlyOnFailure ==
    las_pc \in {"wait", "returned"} => (ctxDone \/ lfail)

C4_Witness ==
    /\ las_pc = "accept" /\ ~ctxDone /\ ~lfail
    /\ conn[1] = "done"
    /\ \E i \in 1..MaxConns : conn[i] = "hserr"

\* C5: when the package's client (ClientHandshake, then Go(name) with a name that selects
\* an export) talks to Serve and the peer keeps the stream open, the server handshake does
\* not fail, Go returns no error, and the Export of Go has the name, size and flags of the
\* Export in the server's connection parameters
C5_HandshakeSymmetry ==
    \A n \in PeerNames :
        (cl_hs = "ClientHandshake" /\ cl_hist = <<[op |-> "Go", name |-> n]>>
             /\ Selects(n, exports) /\ ~peerClosed)
        => /\ ServeDone => srv_last.outcome = "transmission"
           /\ cl_res.op = "Go" =>
                /\ cl_res.err = "nil"
                /\ srv_last.outcome = "transmission"
                /\ cl_res.ex.Name = srv_parms.Export.Name
                /\ cl_res.ex.Size = srv_parms.Export.Size
                /\ cl_res.ex.Flags = srv_parms.Export.Flags

\* the names of the export list, in its order
ExportNames == [i \in 1..Len(exports) |-> exports[i].Name]
\* one SERVER reply (name behind its length, no details) per export, then one ACK
ExpectedListReplies ==
    [i \in 1..Len(exports) |->
        [code |-> <<0, 0, 0, 2>>, body |-> <<0, 0, 0, Len(exports[i].Name)>> \o exports[i].Name]]
    \o << [code |-> <<0, 0, 0, 1>>, body |-> <<>>] >>

\* C6: for a LIST option the server emits one SERVER reply per export, in the order of the
\* export list and with empty details, then one ACK, and goes on reading options; a
\* Client.List that returns without error returns exactly the export names in that order
C6_List ==
    /\ srv_last.frame = send(cOptList, <<>>) =>
          /\ srv_last.replies = ExpectedListReplies
          /\ srv_last.outcome = "loop"
    /\ (cl_res.op = "List" /\ cl_res.err = "nil") => cl_res.list = ExportNames

\* request lists of INFO and GO options
ReqLists == {<<>>, <<cInfoName, cInfoBlockSize>>, infoReqs}
\* the reply code of each reply and, for INFO replies, the info kind
ReplyKinds(replies) ==
    [i \in 1..Len(replies) |->
        IF replies[i].code = <<0, 0, 0, 3>> THEN <<3, Val(SubSeq(replies[i].body, 1, 2))>>
        ELSE <<replies[i].code>>]
RECURSIVE RequestedKinds(_)
RequestedKinds(rq) ==
    IF rq = <<>> THEN <<>>
    ELSE (IF Head(rq) \in {cInfoName, cInfoDescription, cInfoBlockSize}
          THEN << <<3, Head(rq)>> >> ELSE <<>>) \o RequestedKinds(Tail(rq))

\* C7: for an INFO or GO option naming an existing export the server sends one EXPORT info
\* reply, one INFO reply per requested kind NAME, DESCRIPTION, BLOCK_SIZE in request order,
\* and one ACK last; GO then enters transmission with that export, INFO reads on
C7_InfoGoReplies ==
    \A c \in {cOptInfo, cOptGo}, n \in PeerNames, rq \in ReqLists :
        (srv_last.frame = send(c, optInfo_encode(n, rq)) /\ Selects(n, exports))
        => /\ ReplyKinds(srv_last.replies)
                = << <<3, cInfoExport>> >> \o RequestedKinds(rq) \o << <<BE32(cRepAck)>> >>
           /\ srv_last.outcome = IF c = cOptGo THEN "transmission" ELSE "loop"
           /\ c = cOptGo => srv_parms.Export = Selected(n, exports)

\* C8: on an EXPORT_NAME option whose name selects an export the server writes that
\* export's size (u64) and flags (u16) and nothing else, reads no further option, and the
\* handshake succeeds with that export in the connection parameters
C8_ExportName ==
    \A n \in PeerNames :
        (srv_last.frame = send(cOptExportName, n) /\ Selects(n, exports))
        => /\ srv_last.out = BE64(Selected(n, exports).Size) \o BE16(Selected(n, exports).Flags)
           /\ srv_last.outcome = "transmission"
           /\ srv_pc \notin {"hello", "flags", "options"}
           /\ srv_parms.Export = Selected(n, exports)

\* C9: on an EXPORT_NAME option whose name matches no export the handshake fails: Serve
\* returns an error, nothing is written for the option, transmission is never entered
C9_ExportNameUnknown ==
    \A n \in PeerNames :
        (srv_last.frame = send(cOptExportName, n) /\ ~Selects(n, exports))
        => /\ srv_last.outcome = "fail"
           /\ srv_last.out = <<>>
           /\ ServeDone /\ srv_err # "nil"

\* C10: on an ABORT option with an empty body the server writes one ACK reply and nothing
\* else, the handshake ends with an error, no further option is read and transmission is
\* never entered
C10_Abort ==
    srv_last.frame = send(cOptAbort, <<>>)
    => /\ srv_last.replies = << [code |-> <<0, 0, 0, 1>>, body |-> <<>>] >>
       /\ srv_last.out = repMagic \o <<0, 0, 0, 2>> \o <<0, 0, 0, 1>> \o <<0, 0, 0, 0>>
       /\ srv_last.outcome = "fail"
       /\ ServeDone /\ srv_err = "client aborted negotiation"

\* an INFO or GO body with a name and a list of requested kinds, laid out as
\* name_length (u32) | name | req_count (u16) | reqs (u16 each)
InfoBody(n, rq) ==
    <<0, 0, 0, Len(n)>> \o n \o <<0, Len(rq)>> \o Concat([i \in 1..Len(rq) |-> <<0, rq[i]>>])
\* an option frame: magic, option code, body length, body
OptFrame(c, body) == optMagic \o <<0, 0, 0, c>> \o <<0, 0, 0, Len(body)>> \o body
\* bodies of INFO/GO options whose length differs from 4 + name_length + 2 + 2*req_count
BadInfoBodies == { <<>>, <<0, 0, 0, 1>> \o NameA \o <<0, 1>> }
\* the error reply with the given code bytes and no message
ErrorReply(code) == [code |-> code, body |-> <<>>]

\* C11: the server accepts an INFO/GO body exactly when its declared length equals
\* 4 + name_length + 2 + 2*req_count, and then has decoded the name and every requested
\* kind (with one or more requested kinds too); any other layout is answered ERR_INVALID
C11_InfoBodyLayout ==
    \A c \in {cOptInfo, cOptGo} :
        /\ \A n \in PeerNames, rq \in ReqLists :
              srv_last.frame = OptFrame(c, InfoBody(n, rq))
              => /\ srv_last.st = "ok"
                 /\ srv_last.o.name = n /\ srv_last.o.reqs = rq
        /\ \A b \in BadInfoBodies :
              srv_last.frame = OptFrame(c, b)
              => srv_last.replies = <<ErrorReply(<<128, 0, 0, 3>>)>>

\* option frames that are answered with an error reply: an unknown option code with a
\* body, ABORT and LIST with a body, INFO with a bad layout
ErrorFrames ==
    { OptFrame(5, <<1, 2>>), OptFrame(cOptAbort, <<0>>), OptFrame(cOptList, <<0>>),
      OptFrame(cOptInfo, <<0, 0, 0, 1>> \o NameA \o <<0, 1>>) }
\* the peer wrote only whole option frames with the option magic
WellFramed ==
    \A i \in 1..Len(cl_hist) :
        /\ cl_hist[i].op = "raw"
        /\ Len(cl_hist[i].name) >= 16
        /\ SubSeq(cl_hist[i].name, 1, 8) = optMagic
        /\ cl_hist[i].name[13] = 0 /\ cl_hist[i].name[14] = 0 /\ cl_hist[i].name[15] = 0
        /\ Len(cl_hist[i].name) = 16 + cl_hist[i].name[16]

\* C12: when the server answers an option with an error reply it has consumed the whole
\* declared body of that option, so that a peer which writes only whole, well-framed
\* options never makes the handshake fail on an invalid option magic
C12_ErrorReplyKeepsAlignment ==
    /\ \A fr \in ErrorFrames :
          srv_last.frame = fr
          => /\ Len(srv_last.replies) = 1 /\ srv_last.replies[1].code[1] = 128
             /\ srv_last.n = Len(fr)
    /\ (cl_hs = "raw" /\ WellFramed) => srv_err # "invalid option magic"

\* C13: findExport(n, E) returns E[0] when n is empty and E is not; otherwise the first
\* export of E whose name is n when there is one; otherwise (an empty n with an empty E
\* too) it reports not found
C13_FindExport ==
    srv_pc = "returned" =>
        LET n == cl_hist[1].name
            E == exports
        IN IF n = <<>> /\ Len(E) > 0
           THEN srv_err = "found" /\ srv_parms.Export = E[1]
           ELSE IF \E i \in 1..Len(E) : E[i].Name = n
           THEN /\ srv_err = "found"
                /\ \E i \in 1..Len(E) : /\ E[i].Name = n /\ srv_parms.Export = E[i]
                                        /\ \A j \in 1..(i - 1) : E[j].Name # n
           ELSE srv_err = "not found"

C13_Witness ==
    /\ srv_pc = "returned" /\ exports = <<ExB, ExA>>
    /\ cl_hist[1].name = NameA /\ srv_err = "found" /\ srv_parms.Export = ExA

\* C14: on an INFO or GO option whose name matches no export the server sends exactly
\* one error reply, with code ERR_UNKNOWN, and neither an INFO reply nor an ACK; it does
\* not enter transmission and goes on reading options
C14_InfoGoUnknown ==
    \A c \in {cOptInfo, cOptGo}, n \in PeerNames, rq \in ReqLists :
        (srv_last.frame = OptFrame(c, InfoBody(n, rq)) /\ ~Selects(n, exports))
        => /\ srv_last.replies = <<ErrorReply(<<128, 0, 0, 6>>)>>
           /\ srv_last.outcome = "loop"

\* the greeting of a server with handshake flags f
Greeting(f) == nbdMagic \o optMagic \o <<0, f>>

\* C15: both sides accept the peer's handshake flags only when they are exactly DEFAULTS:
\* Serve fails when the client flags are anything else, and ClientHandshake fails when
\* the server flags are anything else, DEFAULTS with extra bits included
C15_FlagsExactlyDefaults ==
    /\ (cl_hs = "raw-other" /\ srv_pc # "flags") => (ServeDone /\ srv_err # "nil")
    /\ (srv_pc = "foreign" /\ cl_res.op = "ClientHandshake" /\ cl_res.err = "nil")
       => srv_last.out = Greeting(3)

\* C16: once Go or Abort has returned, with or without an error, every later List, Info,
\* Go or Abort returns the error of a closed client without writing to or reading from
\* the stream (a call that got as far as waiting for a reply has written its request)
C16_ClosedAfterGoOrAbort ==
    \A i \in 1..(Len(cl_hist) - 1) :
        cl_hist[i].op \in {"Go", "Abort"}
        => /\ cl_pc # "recv"
           /\ cl_res.err = "use of closed client"

\* the bytes the server wrote for the requests of the log, in the order of the log
RECURSIVE LogReplies(_)
LogReplies(log) == IF log = <<>> THEN <<>> ELSE Head(log).reply \o LogReplies(Tail(log))
\* the entry is a DISC request that passed the validation of the decoder
IsDisc(e) == e.req.typ = 2 /\ e.err = 0
\* the four bytes of the request length as a number (lengths in the model are small)
LengthOf(e) == e.req.length[3] * 256 + e.req.length[4]

\* C17: in the transmission loop every decoded request other than DISC gets exactly one
\* simple reply, which carries the handle of the request; the replies are on the
\* connection in the order the requests were decoded, each frame in one piece, and the
\* next request is decoded only after the reply to the one before is written
C17_OneReplyPerRequest ==
    cl_hs = "kernel" =>
        /\ s2c = LogReplies(srv_log)
        /\ \A i \in 1..Len(srv_log) :
              LET e == srv_log[i] IN
              /\ (i < Len(srv_log) \/ srv_pc = "transmission") => (e.done /\ ~IsDisc(e))
              /\ IsDisc(e) => e.reply = <<>>
              /\ e.done =>
                    /\ Len(e.reply) \in {16, 16 + LengthOf(e)}
                    /\ SubSeq(e.reply, 1, 4) = <<103, 68, 102, 152>>
                    /\ SubSeq(e.reply, 9, 16) = e.req.handle

C17_Witness ==
    /\ cl_hs = "kernel" /\ srv_pc = "transmission" /\ Len(srv_log) = 2
    /\ srv_log[1].req.handle # srv_log[2].req.handle
    /\ srv_log[1].err = 75 /\ srv_log[2].req.typ = 0 /\ Len(srv_log[2].reply) = 17

\* C18: on a DISC request the server writes no reply, calls no device operation, decodes
\* no further request, and the transmission loop returns without an error
C18_Disc ==
    \A i \in 1..Len(srv_log) :
        srv_log[i].req.typ = 2
        => /\ srv_log[i].reply = <<>> /\ srv_log[i].called = "none"
           /\ i = Len(srv_log)
           /\ srv_pc \in {"returned", "closed"} /\ srv_err = "nil"

\* C19: a READ request with a length above zero whose ReadAt succeeds is answered with
\* errno 0 and a payload of exactly length bytes: the bytes the device held at
\* [offset, offset + length) when the request was served
C19_ReadPayload ==
    \A i \in 1..Len(srv_log) :
        LET e == srv_log[i]
            off == e.req.offset[8]
        IN (e.req.typ = 0 /\ e.called = "ReadAt" /\ e.out = "ok" /\ e.done)
           => /\ LengthOf(e) > 0
              /\ e.reply = <<103, 68, 102, 152>> \o <<0, 0, 0, 0>> \o e.req.handle
                            \o [k \in 1..LengthOf(e) |-> e.dev[off + k]]

C19_Witness ==
    /\ Len(srv_log) = 2
    /\ srv_log[1].req.typ = 1 /\ srv_log[1].out = "ok"
    /\ srv_log[2].req.typ = 0 /\ srv_log[2].out = "ok" /\ srv_log[2].done
    /\ srv_log[2].reply = <<103, 68, 102, 152, 0, 0, 0, 0, 0, 0, 0, 0, 0, 0, 0, 2, 7>>

\* the command of the entry failed: the decoder returned an errno, the request is not
\* valid for its command, or the device operation returned an error
Failed(e) ==
    \/ e.err # 0
    \/ e.req.typ \in {0, 1} /\ LengthOf(e) = 0
    \/ e.req.typ = 3 /\ (LengthOf(e) # 0 \/ e.req.offset # <<0, 0, 0, 0, 0, 0, 0, 0>>)
    \/ e.req.typ \notin {0, 1, 2, 3}
    \/ e.out \in {"Errno", "Errno0", "plain"}

\* C20: the reply to a failed command has a non-zero errno and no payload, whatever
\* Errno the error of the device carries; only a reply with errno 0 to a READ has a payload
C20_ErrorReplies ==
    \A i \in 1..Len(srv_log) :
        LET e == srv_log[i] IN
        e.done =>
            /\ Failed(e) => (SubSeq(e.reply, 5, 8) # <<0, 0, 0, 0>> /\ Len(e.reply) = 16)
            /\ Len(e.reply) > 16 => (SubSeq(e.reply, 5, 8) = <<0, 0, 0, 0>> /\ e.req.typ = 0)

\* the wire errno of the reply of a log entry
ErrnoOf(e) == SubSeq(e.reply, 5, 8)

\* C21: the reply to a request whose device operation (ReadAt, WriteAt, Sync) returned an
\* error carries exactly the Errno of that error when the error implements Error, and
\* EIO (5) for any other error
C21_ErrorMapping ==
    \A i \in 1..Len(srv_log) :
        LET e == srv_log[i] IN
        (e.done /\ e.called # "none" /\ e.out # "ok")
        => ErrnoOf(e) = CASE e.out = "Errno"  -> <<0, 0, 0, 1>>
                          [] e.out = "Errno0" -> <<0, 0, 0, 0>>
                          [] OTHER            -> <<0, 0, 0, 5>>

C21_Witness ==
    /\ Len(srv_log) = 2
    /\ srv_log[1].called = "WriteAt" /\ srv_log[1].out = "Errno" /\ ErrnoOf(srv_log[1]) = <<0, 0, 0, 1>>
    /\ srv_log[2].called = "Sync" /\ srv_log[2].out = "plain" /\ srv_log[2].done
    /\ ErrnoOf(srv_log[2]) = <<0, 0, 0, 5>>

\* the request of the entry is not valid for its command: READ or WRITE of length 0,
\* FLUSH with an offset or a length, or a command other than READ, WRITE, DISC, FLUSH
Invalid(e) ==
    \/ e.req.typ \in {0, 1} /\ LengthOf(e) = 0
    \/ e.req.typ = 3 /\ (LengthOf(e) # 0 \/ e.req.offset # <<0, 0, 0, 0, 0, 0, 0, 0>>)
    \/ e.req.typ \notin {0, 1, 2, 3}

\* C22, as stated: every request that is not valid for its command is answered EINVAL (22),
\* no device operation is called for it and the device is unchanged
C22_InvalidAnsweredEINVAL ==
    \A i \in 1..Len(srv_log) :
        LET e == srv_log[i] IN
        (e.done /\ Invalid(e))
        => /\ ErrnoOf(e) = <<0, 0, 0, 22>> /\ Len(e.reply) = 16
           /\ e.called = "none" /\ e.after = e.dev

\* C22: a request that is not valid for its command never reaches the device: no device
\* operation is called for it and the device is unchanged; it is answered EINVAL (22), or
\* EOVERFLOW (75) when its offset has bit 63 set
C22_InvalidNeverReachesDevice ==
    \A i \in 1..Len(srv_log) :
        LET e == srv_log[i] IN
        (e.done /\ Invalid(e))
        => /\ ErrnoOf(e) = IF e.req.offset[1] >= 128 THEN <<0, 0, 0, 75>> ELSE <<0, 0, 0, 22>>
           /\ Len(e.reply) = 16
           /\ e.called = "none" /\ e.after = e.dev

C22_Witness ==
    /\ Len(srv_log) = 2 /\ srv_log[2].done
    /\ srv_log[1].req.typ = 1 /\ LengthOf(srv_log[1]) = 0 /\ ErrnoOf(srv_log[1]) = <<0, 0, 0, 22>>
    /\ srv_log[2].req.typ = 3 /\ srv_log[2].req.offset[8] = 1 /\ ErrnoOf(srv_log[2]) = <<0, 0, 0, 22>>

\* C23: every request whose offset has bit 63 set, whatever its command, is answered with
\* errno EOVERFLOW (75) and its own handle, and no device operation is called for it
C23_OffsetGuard ==
    \A i \in 1..Len(srv_log) :
        LET e == srv_log[i] IN
        e.req.offset[1] >= 128
        => /\ e.called = "none" /\ e.after = e.dev
           /\ (i < Len(srv_log) \/ srv_pc = "transmission") => e.done
           /\ e.done => e.reply = <<103, 68, 102, 152>> \o <<0, 0, 0, 75>> \o e.req.handle

C23_Witness ==
    /\ Len(srv_log) = 2 /\ srv_log[2].done
    /\ srv_log[1].req.typ = 0 /\ srv_log[1].req.offset[1] = 128
    /\ srv_log[2].req.typ = 2 /\ srv_log[2].req.offset[1] = 128

\* C24: after a request that was rejected or failed the session goes on and stays
\* aligned: the header of the request and, for a WRITE, its payload have been consumed
C24_StaysAligned ==
    \A i \in 1..Len(srv_log) :
        LET e == srv_log[i] IN
        e.n = 28 + (IF e.req.typ = 1 THEN LengthOf(e) ELSE 0)

\* the stream starts with the header of a WRITE of more than 4 MiB
BigWrite(s) ==
    /\ Len(s) >= 28 /\ Bytes(s, 1, 4) = reqMagic /\ s[17] < 128
    /\ Val(Bytes(s, 7, 2)) = 1
    /\ ~IsBig(Bytes(s, 25, 4)) /\ Val(Bytes(s, 25, 4)) > 4194304

\* C25: a WRITE request of more than 4 MiB is answered EOVERFLOW (75), no WriteAt is called
\* for it, and the transmission loop goes on
C25_PayloadBound ==
    [][(srv_pc = "transmission" /\ ~ctxDone /\ BigWrite(c2s) /\ srv_pc' # "transmission")
       => /\ srv_pc' = "reply"
          /\ srv_reply' = replyWrites(<<103, 68, 102, 152>> \o <<0, 0, 0, 75>> \o Bytes(c2s, 9, 8))
          /\ dev' = dev]_vars

\* the stream starts with four bytes that are not the request magic
BadMagic(s) == Len(s) >= 4 /\ Bytes(s, 1, 4) # <<37, 96, 149, 19>>

\* C27: when the next request frame does not start with the request magic, serve returns
\* an error without writing a reply or calling the device, and once serve has returned
\* nothing more is decoded, written or done to the device
C27_MagicDiscipline ==
    [][/\ (srv_pc = "transmission" /\ ~ctxDone /\ BadMagic(c2s) /\ srv_pc' # "transmission")
          => /\ srv_pc' = "returned" /\ srv_err' = "invalid magic for request"
             /\ s2c' = s2c /\ srv_reply' = <<>> /\ srv_log' = srv_log /\ dev' = dev
       /\ (cl_hs = "kernel" /\ srv_pc \in {"returned", "closed"})
          => /\ srv_pc' \in {"returned", "closed"} /\ srv_err' = srv_err
             /\ s2c' = s2c /\ srv_log' = srv_log /\ dev' = dev]_vars

C27_Witness ==
    /\ srv_pc = "returned" /\ srv_err = "invalid magic for request"
    /\ Len(srv_log) = 1 /\ srv_log[1].done /\ c2s = <<>>

\* the value the decoder produced is the value that was encoded
RTSame(v, d) ==
    CASE v.kind = "request" ->
            /\ d.st = "ok" /\ d.err = 0
            /\ d.req = [typ |-> v.typ, handle |-> v.handle, offset |-> v.offset,
                        length |-> BE32(v.length), data |-> v.data]
      [] v.kind = "simpleReply" ->
            /\ d.st = "ok"
            /\ d.rep = [kind |-> "simpleReply", errno |-> v.errno, handle |-> v.handle, data |-> v.data]
      [] v.kind = "reply" -> d.rep = v.val /\ (d.st = "ok" \/ v.val.kind = "error")
      [] OTHER ->
            /\ d.st = "ok"
            /\ d.o = [kind |-> v.kind, name |-> v.name, reqs |-> v.reqs, done |-> v.done]

\* C26: encoding a request, a simple reply, an option request or an option reply and then
\* decoding the bytes gives back an equal value and consumes exactly the bytes written
C26_RoundTrip ==
    srv_pc = "decoded" => /\ RTSame(cl_op, srv_last)
                          /\ srv_last.n = Len(s2c) /\ c2s = <<>>

\* the errors of context.Canceled and context.DeadlineExceeded
Cancellation == {"context canceled", "context deadline exceeded"}

\* the first non-nil error of the four steps of a call of wait, the serve error first
FirstError(log) ==
    IF log[1].err \notin Cancellation \cup {"nil"} THEN log[1].err
    ELSE IF log[2].err # "nil" THEN "failed to disconnect device"
    ELSE IF log[3].err # "nil" THEN "failed to close client socket"
    ELSE IF log[4].err # "nil" THEN "failed to close server connection"
    ELSE "nil"

\* C28: every call of wait that has returned has, after serve ended, called nbdnl.Disconnect,
\* closed the client socket and closed the server connection, whatever the earlier steps
\* returned, and has returned the first non-nil of: the serve error unless it is a
\* cancellation, the disconnect error, the client close error, the server close error
C28_WaitSteps ==
    /\ wait_pc \notin {"none", "egwait"} => srv_pc = "returned"
    /\ wait_pc = "returned" =>
          /\ [k \in 1..Len(wait_log) |-> wait_log[k].step]
                = <<"eg.Wait", "nbdnl.Disconnect", "client.Close", "serverc.Close">>
          /\ wait_log[1].err = srv_err
          /\ wait_err = FirstError(wait_log)
          /\ connClosed

C28_Witness ==
    /\ wait_pc = "returned"
    /\ Len(wait_log) = 4
    /\ wait_log[1].err = "unexpected EOF"
    /\ wait_log[2].err = "EBADF"
    /\ wait_log[3].err = "nil"
    /\ wait_log[4].err = "EBADF"
    /\ wait_err = "unexpected EOF"

\* C29: once ctx is cancelled the serve task of Loopback returns and a call of wait
\* returns; a wait whose serve error is a cancellation and whose disconnect and two
\* closes succeeded returns nil
C29_CancelEndsLoopback ==
    /\ ctxDone ~> (srv_pc = "returned")
    /\ (ctxDone /\ wait_pc = "egwait") ~> (wait_pc = "returned")
    /\ [](/\ wait_pc = "returned"
          /\ srv_err \in Cancellation
          /\ \A k \in 2..Len(wait_log) : wait_log[k].err = "nil"
          => wait_err = "nil")

C29_Witness ==
    /\ ctxDone
    /\ wait_pc = "returned"
    /\ srv_err = "context canceled"
    /\ Len(wait_log) = 4
    /\ \A k \in 2..4 : wait_log[k].err = "nil"
    /\ wait_err = "nil"

\* C30: no two executions of a command on the shared netlink session overlap, and an
\* execution runs, from its request to its response, while its caller holds conn.mu
C30_Serialised ==
    /\ \A i, j \in Callers : (nl_pc[i].pc = "execute" /\ nl_pc[j].pc = "execute") => i = j
    /\ \A i \in Callers : nl_pc[i].pc = "execute" => nl_mu = i
    /\ \A k \in 1..Len(nl_log) : nl_log[k].mu = nl_log[k].caller

\* the events of one kind on the netlink session
Events(n) == SelectSeq(nl_log, LAMBDA e : e.ev = n)

Occurs(e, li) == Cardinality({k \in 1..Len(li) : li[k] = e})

\* C32: when the exchange with the kernel succeeded, StatusAll returns every entry of the
\* reply, in ascending order of Index, and an empty list without error for an empty
\* reply; Status(idx) returns an entry of the reply whose Index is idx if there is one
\* and fails with "device not found" if there is none
C32_StatusSemantics ==
    (cl_pc = "returned" /\ cl_op.err = "nil") =>
        /\ cl_op.op = "StatusAll" =>
              /\ cl_res.err = "nil"
              /\ Len(cl_res.li) = Len(cl_op.reply)
              /\ \A k \in 1..Len(cl_op.reply) :
                    Occurs(cl_op.reply[k], cl_res.li) = Occurs(cl_op.reply[k], cl_op.reply)
              /\ \A k \in 1..Len(cl_res.li) - 1 : cl_res.li[k].Index <= cl_res.li[k + 1].Index
        /\ cl_op.op = "Status" =>
              IF \E k \in 1..Len(cl_op.reply) : cl_op.reply[k].Index = cl_op.idx
              THEN /\ cl_res.err = "nil"
                   /\ cl_res.li[1].Index = cl_op.idx
                   /\ Occurs(cl_res.li[1], cl_op.reply) > 0
              ELSE cl_res.err = "device not found"

\* Status finds device 1 in a reply that lists device 2 before it
C32_Witness ==
    /\ cl_pc = "returned" /\ cl_op.op = "Status" /\ cl_op.idx = 1 /\ cl_op.err = "nil"
    /\ Len(cl_op.reply) = 2 /\ cl_op.reply[1].Index = 2 /\ cl_op.reply[2].Index = 1
    /\ cl_res = [li |-> <<cl_op.reply[2]>>, err |-> "nil"]

\* the call c of Read or Write returned an error that its codec call hands to check
Failing(c) == c.err # "nil" /\ ~(c.op = "Read" /\ c.n = c.len)

\* a call started after the cancellation does no I/O and returns the error of ctx
LateCall(c) == c.late => c.ios = 0 /\ c.n = 0 /\ c.err = "context canceled"

C35_OneTerminalError ==
    /\ [](/\ srv_pc \in {"transmission", "returned"}
          /\ \A k \in 1..Len(srv_log) : Failing(srv_log[k]) => k = Len(srv_log) /\ srv_pc = "returned"
          /\ srv_pc = "transmission" => srv_err = "nil"
          /\ srv_pc = "returned" =>
                /\ srv_last = NoCall
                /\ Len(srv_log) > 0 /\ Failing(srv_log[Len(srv_log)])
                /\ srv_err = IF srv_log[Len(srv_log)].err = "EOF" THEN "unexpected EOF"
                             ELSE srv_log[Len(srv_log)].err)
    /\ [][srv_pc = "returned" => UNCHANGED <<c2s, s2c, srv_pc, srv_err, srv_last, srv_log>>]_vars

\* a read succeeded, then the peer closed the connection and the next read failed
C35_Witness ==
    /\ srv_pc = "returned" /\ srv_err = "unexpected EOF"
    /\ Len(srv_log) = 2 /\ srv_log[1].err = "nil" /\ srv_log[1].op = "Read"
    /\ srv_log[2].err = "EOF" /\ cl_hist = <<1>>

\* C37: a call of Read or Write that returns while ctx is not cancelled never returns a
\* timeout: Read returns at least one byte or an error that is not a timeout, Write
\* returns after all bytes or with such an error; the bytes the codec has read and the
\* bytes still on the connection are the bytes the peer sent, in order, and the bytes the
\* connection has taken are the bytes written, in order
C37_TimeoutRetried ==
    /\ \A k \in 1..Len(srv_log) :
          srv_log[k].pc = "running" =>
             /\ srv_log[k].err # "timeout"
             /\ srv_log[k].op = "Read" =>
                   (srv_log[k].err = "nil" /\ srv_log[k].n >= 1) \/ srv_log[k].err = "EOF"
             /\ srv_log[k].op = "Write" =>
                   (srv_log[k].err = "nil" /\ srv_log[k].n = srv_log[k].len) \/ srv_log[k].err = "EPIPE"
    /\ srv_pc = "transmission" =>
          /\ \A j \in 1..Len(cl_hist \o cl_op.got \o srv_last.buf \o c2s) :
                (cl_hist \o cl_op.got \o srv_last.buf \o c2s)[j] = j
          /\ Len(s2c) = Len(srv_reply) + (IF srv_last.op = "Write" THEN srv_last.n ELSE 0)
          /\ \A j \in 1..Len(s2c) : s2c[j] = j

\* a Read returned two bytes that came from two calls of the connection, the first of
\* which timed out, and a Write returned after a timeout with one byte taken
C37_Witness ==
    /\ ~ctxDone /\ Len(srv_log) = 2
    /\ srv_log[1].op = "Read" /\ srv_log[1].ios = 2 /\ srv_log[1].n = 2 /\ srv_log[1].err = "nil"
    /\ srv_log[2].op = "Write" /\ srv_log[2].ios = 2 /\ srv_log[2].n = 2 /\ srv_log[2].err = "nil"
    /\ cl_hist = <<1, 2>> /\ s2c = <<1, 2>>

\* C36: a frame of encodeReply or send carries, behind its header, a u32 that is the
\* number of the body bytes that follow it; no body byte is on the stream before the
\* length; e.buf is nil again when the frame is complete, also for an empty body
C36_LengthPrefix ==
    /\ srv_last.pc \in {"start", "header", "buffered", "encoded", "captured"} =>
          \E k \in 0..Len(cl_op.head) : s2c = SubSeq(cl_op.head, 1, k)
    /\ srv_last.pc = "length" => s2c = cl_op.head \o BE32(Len(cl_op.body))
    /\ srv_last.pc = "done" =>
          /\ srv_last.e.nil
          /\ Len(s2c) >= Len(cl_op.head) + 4
          /\ SubSeq(s2c, 1, Len(cl_op.head)) = cl_op.head
          /\ Val(Bytes(s2c, Len(cl_op.head) + 1, 4)) = Len(s2c) - Len(cl_op.head) - 4
          /\ SubSeq(s2c, Len(cl_op.head) + 5, Len(s2c)) = cl_op.body
          /\ cl_op.fn = "send" => s2c = send(Val(Bytes(cl_op.head, 9, 4)), cl_op.body)

\* complete frames with an empty body (ACK) and with a body (an information request)
C36_Witness ==
    /\ srv_last.pc = "done" /\ srv_last.e.nil
    /\ \/ cl_op.fn = "encodeReply" /\ cl_op.body = <<>> /\ Len(s2c) = 20
       \/ cl_op.fn = "send" /\ Len(cl_op.body) > 6 /\ Len(s2c) = 16 + Len(cl_op.body)

\* C34: e.discard(n) consumes exactly n bytes when the stream has them and returns; it
\* never consumes more than n; on a stream that ends before the n-th byte it fails with
\* the unexpected end of the stream; it never panics
C34_DiscardExact ==
    srv_last.st # "none" =>
        /\ srv_last.st # "panic"
        /\ srv_last.n <= cl_op.n
        /\ srv_last.st = "ok" <=> srv_last.n = cl_op.n
        /\ srv_last.st = "unexpected EOF" => peerClosed /\ c2s = <<>>
        /\ srv_last.st = "blocked" => ~peerClosed /\ c2s = <<>>

\* C38: when Loopback has returned an error, no descriptor of the socket pair it created
\* is open: neither the client end nor the server end, nor the duplicate of the server
\* end that the connection holds
C38_NoLeakOnError ==
    lb_pc = "failed" => fds = {}

\* C39: whenever ListenAndServe has returned after net.Listen bound its listener, the
\* descriptor of the listener is closed, so the address is no longer held
C39_ListenerClosed ==
    (las_pc = "returned" /\ las_err # "listen error") => "listener" \notin fds

\* the exports of ExportLists that have explicit BlockSizeConstraints
ExplicitExports == {ExA}

\* C40: for an INFO and for a GO option that asks for BLOCK_SIZE on an export with
\* explicit BlockSizeConstraints, the server sends one BLOCK_SIZE info reply, and it
\* carries the (min, preferred, max) of the export's own constraints in both cases
C40_SameBlockSizes ==
    \A c \in {cOptInfo, cOptGo}, n \in PeerNames, rq \in ReqLists, ex \in ExplicitExports :
        ( /\ srv_last.frame = OptFrame(c, InfoBody(n, rq))
          /\ Selects(n, exports)
          /\ Selected(n, exports).Name = ex.Name
          /\ \E i \in 1..Len(rq) : rq[i] = cInfoBlockSize )
        => \E i \in 1..Len(srv_last.replies) :
              /\ srv_last.replies[i] = infoBlockSize(ex.BlockSizes)
              /\ \A j \in 1..Len(srv_last.replies) :
                    ReplyKinds(srv_last.replies)[j] = <<3, cInfoBlockSize>> => j = i

====
